---- MODULE Spec2Model ----
(***************************************************************************)
(* VecPack canonical serialization of the Amadeus TypeScript SDK           *)
(* (serialization.ts): encode / decode and their helpers, as operators,    *)
(* and a state machine that applies them to bounded inputs.                *)
(*                                                                         *)
(* Values.  Every SerializableValue / DecodedValue is a record             *)
(*   [t, f, b, items]                                                      *)
(*   t     : the JavaScript type ("null", "boolean", "number", "bigint",   *)
(*           "string", "Uint8Array", "Array", "Map", "object")             *)
(*   f     : the boolean itself, or the sign of a number / bigint          *)
(*   b     : the magnitude of a number / bigint as its minimal big-endian  *)
(*           base-256 digits (<<>> is zero), the UTF-16 code units of a    *)
(*           string, or the bytes of a Uint8Array                          *)
(*   items : the elements of an Array, or the entries [k, v] of a Map or   *)
(*           object in insertion order                                     *)
(* Integers are digit sequences because bigint is unbounded and the bound  *)
(* Number.MAX_SAFE_INTEGER = 2^53-1 has to be represented exactly.         *)
(***************************************************************************)
EXTENDS Integers, Sequences, FiniteSets, TLC

TYPE_NULL == 0
TYPE_TRUE == 1
TYPE_FALSE == 2
TYPE_INT == 3
TYPE_BYTES == 5
TYPE_LIST == 6
TYPE_MAP == 7

\* what data[i] yields when i is not an index of the Uint8Array
Undefined == -1

\* JavaScript numbers beyond the exact range of the model: Huge32 stands for
\* every number in [2^24, 2^32) and Huge53 for every number in [2^32, 2^53).
\* No buffer of the model is that long, so as lengths, counts and offsets
\* all numbers of one class behave alike.
Huge32 == 16777216
Huge53 == 33554432

----------------------------------------------------------------------------
(* value constructors *)

Null == [t |-> "null", f |-> FALSE, b |-> <<>>, items |-> <<>>]
Bool(x) == [t |-> "boolean", f |-> x, b |-> <<>>, items |-> <<>>]
Num(neg, mag) == [t |-> "number", f |-> neg, b |-> mag, items |-> <<>>]
Big(neg, mag) == [t |-> "bigint", f |-> neg, b |-> mag, items |-> <<>>]
Str(units) == [t |-> "string", f |-> FALSE, b |-> units, items |-> <<>>]
U8(bytes) == [t |-> "Uint8Array", f |-> FALSE, b |-> bytes, items |-> <<>>]
Arr(elems) == [t |-> "Array", f |-> FALSE, b |-> <<>>, items |-> elems]
MapOf(entries) == [t |-> "Map", f |-> FALSE, b |-> <<>>, items |-> entries]
Obj(entries) == [t |-> "object", f |-> FALSE, b |-> <<>>, items |-> entries]
Entry(key, val) == [k |-> key, v |-> val]

\* results of a call: a returned value / buffer, or a thrown error
Ok(x) == [err |-> "", val |-> x]
Throw(e) == [err |-> e, val |-> <<>>]

----------------------------------------------------------------------------
(* arbitrary-precision magnitudes as big-endian base-256 digits *)

RECURSIVE StripZeros(_)
StripZeros(s) ==
    IF s # <<>> /\ Head(s) = 0 THEN StripZeros(Tail(s)) ELSE s

\* mag > bound, both minimal digit sequences
RECURSIVE LexGreater(_, _)
LexGreater(a, c) ==
    IF a = <<>> THEN FALSE
    ELSE IF Head(a) # Head(c) THEN Head(a) > Head(c)
    ELSE LexGreater(Tail(a), Tail(c))

MagGreater(a, c) ==
    IF Len(a) # Len(c) THEN Len(a) > Len(c) ELSE LexGreater(a, c)

\* Number.MAX_SAFE_INTEGER = 2^53 - 1 = 0x1FFFFFFFFFFFFF
MAX_SAFE_INTEGER == <<31, 255, 255, 255, 255, 255, 255>>

RECURSIVE MagValue(_)
MagValue(s) ==
    IF s = <<>> THEN 0 ELSE (MagValue(SubSeq(s, 1, Len(s) - 1)) * 256) + s[Len(s)]

\* Number(n) for a non-negative bigint n
NumberOf(mag) ==
    IF Len(mag) <= 3 THEN MagValue(mag)
    ELSE IF Len(mag) = 4 THEN Huge32 ELSE Huge53

\* BigInt(n) for a small non-negative JavaScript integer n (a length)
RECURSIVE MagOf(_)
MagOf(n) == IF n = 0 THEN <<>> ELSE Append(MagOf(n \div 256), n % 256)

----------------------------------------------------------------------------
(* new TextEncoder().encode(value): UTF-8 of a string of UTF-16 code units *)

IsHighSurrogate(u) == u >= 55296 /\ u <= 56319
IsLowSurrogate(u) == u >= 56320 /\ u <= 57343

Utf8OfCodePoint(cp) ==
    IF cp < 128 THEN <<cp>>
    ELSE IF cp < 2048 THEN <<192 + (cp \div 64), 128 + (cp % 64)>>
    ELSE IF cp < 65536
         THEN <<224 + (cp \div 4096), 128 + ((cp \div 64) % 64), 128 + (cp % 64)>>
    ELSE <<240 + (cp \div 262144), 128 + ((cp \div 4096) % 64),
           128 + ((cp \div 64) % 64), 128 + (cp % 64)>>

RECURSIVE TextEncode(_)
TextEncode(units) ==
    IF units = <<>> THEN <<>>
    ELSE IF IsHighSurrogate(units[1]) /\ Len(units) > 1 /\ IsLowSurrogate(units[2])
         THEN Utf8OfCodePoint(65536 + (units[1] - 55296) * 1024 + (units[2] - 56320))
              \o TextEncode(Tail(Tail(units)))
    ELSE IF IsHighSurrogate(units[1]) \/ IsLowSurrogate(units[1])
         THEN Utf8OfCodePoint(65533) \o TextEncode(Tail(units))
    ELSE Utf8OfCodePoint(units[1]) \o TextEncode(Tail(units))

----------------------------------------------------------------------------
(* helpers of encode *)

\* the lengths are compared before the bytes
compareBytes_LengthFirst(a, c) ==
    IF Len(a) # Len(c) THEN Len(a) - Len(c)
    ELSE LET d == {i \in 1..Len(a) : a[i] # c[i]}
         IN IF d = {} THEN 0
            ELSE LET i == CHOOSE j \in d : \A k \in d : j <= k IN a[i] - c[i]

RECURSIVE compareBytes(_, _)
compareBytes(a, c) ==
    IF a = <<>> \/ c = <<>> THEN Len(a) - Len(c)
    ELSE IF Head(a) # Head(c) THEN Head(a) - Head(c)
    ELSE compareBytes(Tail(a), Tail(c))

RECURSIVE LowByteFirst(_)
LowByteFirst(value) ==
    IF value = <<>> THEN <<>>
    ELSE <<value[Len(value)]>> \o LowByteFirst(SubSeq(value, 1, Len(value) - 1))

\* magBytes.reverse() is left out: the magnitude stays low byte first
Reverse_Skipped(s) == s

Reverse(s) == [i \in 1..Len(s) |-> s[Len(s) + 1 - i]]

\* the cap on the magnitude is 17 bytes instead of 16
encodeVarint_CapOffByOne(n) ==
    IF n.t = "float" THEN Throw("RangeError")
    ELSE IF n.b = <<>> THEN Ok(<<0>>)
    ELSE LET isNegative == n.f
             magBytes == Reverse(LowByteFirst(n.b))
             len == Len(magBytes)
             header == (IF isNegative THEN 128 ELSE 0) + len
         IN IF len = 0 \/ len > 17 THEN Throw("bad_varint_length")
            ELSE IF magBytes[1] = 0 THEN Throw("varint_leading_zero")
            ELSE Ok(<<header>> \o magBytes)

\* encodeVarint(n, out): the bytes pushed on out, or the error thrown.
\* BigInt(n) throws a RangeError for a number that is not an integer.
encodeVarint(n) ==
    IF n.t = "float" THEN Throw("RangeError")
    ELSE IF n.b = <<>> THEN Ok(<<0>>)
    ELSE LET isNegative == n.f
             magBytes == Reverse(LowByteFirst(n.b))
             len == Len(magBytes)
             header == (IF isNegative THEN 128 ELSE 0) + len
         IN IF len = 0 \/ len > 16 THEN Throw("bad_varint_length")
            ELSE IF magBytes[1] = 0 THEN Throw("varint_leading_zero")
            ELSE Ok(<<header>> \o magBytes)

\* entries.sort((a, b) => compareBytes(a.bytes, b.bytes)): Array.prototype.sort
\* is stable, so entries with equal bytes keep their insertion order
RECURSIVE InsertEntry(_, _)
InsertEntry(sorted, e) ==
    IF sorted = <<>> THEN <<e>>
    ELSE IF compareBytes(Head(sorted).bytes, e.bytes) > 0 THEN <<e>> \o sorted
    ELSE <<Head(sorted)>> \o InsertEntry(Tail(sorted), e)

\* the entries are written in insertion order
SortEntries_InsertionOrder(entries) == entries

RECURSIVE SortEntries(_)
SortEntries(entries) ==
    IF entries = <<>> THEN <<>>
    ELSE InsertEntry(SortEntries(SubSeq(entries, 1, Len(entries) - 1)),
                     entries[Len(entries)])

RECURSIVE encodeTerm(_)
RECURSIVE encodeElements(_)
RECURSIVE collectEntries(_)
RECURSIVE writeEntries(_)

encodeKeyBytes(k) == encodeTerm(k)

\* for (const element of value) encodeTerm(element, out)
encodeElements(elems) ==
    IF elems = <<>> THEN Ok(<<>>)
    ELSE LET first == encodeTerm(Head(elems))
         IN IF first.err # "" THEN first
            ELSE LET rest == encodeElements(Tail(elems))
                 IN IF rest.err # "" THEN rest ELSE Ok(first.val \o rest.val)

\* the loop that fills entries with {k, v, bytes}; the keys of an object are
\* strings, items holding them in the order of Object.keys
collectEntries(items) ==
    IF items = <<>> THEN Ok(<<>>)
    ELSE LET bytes == encodeKeyBytes(Head(items).k)
         IN IF bytes.err # "" THEN bytes
            ELSE LET rest == collectEntries(Tail(items))
                 IN IF rest.err # "" THEN rest
                    ELSE Ok(<<[k |-> Head(items).k, v |-> Head(items).v,
                               bytes |-> bytes.val]>> \o rest.val)

\* for (const entry of entries) { encodeTerm(entry.k); encodeTerm(entry.v) }
writeEntries(entries) ==
    IF entries = <<>> THEN Ok(<<>>)
    ELSE LET key == encodeTerm(Head(entries).k)
             val == encodeTerm(Head(entries).v)
         IN IF key.err # "" THEN key
            ELSE IF val.err # "" THEN val
            ELSE LET rest == writeEntries(Tail(entries))
                 IN IF rest.err # "" THEN rest
                    ELSE Ok(key.val \o val.val \o rest.val)

\* the length written for a string is its number of UTF-16 code units
encodeTerm_StringLengthInUnits(value) ==
    IF value.t = "null" THEN Ok(<<TYPE_NULL>>)
    ELSE IF value.t = "boolean" THEN Ok(<<IF value.f THEN TYPE_TRUE ELSE TYPE_FALSE>>)
    ELSE IF value.t \in {"number", "float", "bigint"}
         THEN LET n == encodeVarint(value)
              IN IF n.err # "" THEN n ELSE Ok(<<TYPE_INT>> \o n.val)
    ELSE IF value.t = "string"
         THEN LET utf8 == TextEncode(value.b)
                  n == encodeVarint(Num(FALSE, MagOf(Len(value.b))))
              IN IF n.err # "" THEN n ELSE Ok(<<TYPE_BYTES>> \o n.val \o utf8)
    ELSE IF value.t = "Uint8Array"
         THEN LET n == encodeVarint(Num(FALSE, MagOf(Len(value.b))))
              IN IF n.err # "" THEN n ELSE Ok(<<TYPE_BYTES>> \o n.val \o value.b)
    ELSE IF value.t = "Array"
         THEN LET n == encodeVarint(Num(FALSE, MagOf(Len(value.items))))
                  elems == encodeElements(value.items)
              IN IF n.err # "" THEN n
                 ELSE IF elems.err # "" THEN elems
                 ELSE Ok(<<TYPE_LIST>> \o n.val \o elems.val)
    ELSE IF value.t \in {"Map", "object"}
         THEN LET collected == collectEntries(value.items)
              IN IF collected.err # "" THEN collected
                 ELSE LET entries == SortEntries(collected.val)
                          n == encodeVarint(Num(FALSE, MagOf(Len(entries))))
                          written == writeEntries(entries)
                      IN IF n.err # "" THEN n
                         ELSE IF written.err # "" THEN written
                         ELSE Ok(<<TYPE_MAP>> \o n.val \o written.val)
    ELSE Throw("Unsupported type")

encodeTerm(value) ==
    IF value.t = "null" THEN Ok(<<TYPE_NULL>>)
    ELSE IF value.t = "boolean" THEN Ok(<<IF value.f THEN TYPE_TRUE ELSE TYPE_FALSE>>)
    ELSE IF value.t \in {"number", "float", "bigint"}
         THEN LET n == encodeVarint(value)
              IN IF n.err # "" THEN n ELSE Ok(<<TYPE_INT>> \o n.val)
    ELSE IF value.t = "string"
         THEN LET utf8 == TextEncode(value.b)
                  n == encodeVarint(Num(FALSE, MagOf(Len(utf8))))
              IN IF n.err # "" THEN n ELSE Ok(<<TYPE_BYTES>> \o n.val \o utf8)
    ELSE IF value.t = "Uint8Array"
         THEN LET n == encodeVarint(Num(FALSE, MagOf(Len(value.b))))
              IN IF n.err # "" THEN n ELSE Ok(<<TYPE_BYTES>> \o n.val \o value.b)
    ELSE IF value.t = "Array"
         THEN LET n == encodeVarint(Num(FALSE, MagOf(Len(value.items))))
                  elems == encodeElements(value.items)
              IN IF n.err # "" THEN n
                 ELSE IF elems.err # "" THEN elems
                 ELSE Ok(<<TYPE_LIST>> \o n.val \o elems.val)
    ELSE IF value.t \in {"Map", "object"}
         THEN LET collected == collectEntries(value.items)
              IN IF collected.err # "" THEN collected
                 ELSE LET entries == SortEntries(collected.val)
                          n == encodeVarint(Num(FALSE, MagOf(Len(entries))))
                          written == writeEntries(entries)
                      IN IF n.err # "" THEN n
                         ELSE IF written.err # "" THEN written
                         ELSE Ok(<<TYPE_MAP>> \o n.val \o written.val)
    ELSE Throw("Unsupported type")

\* encode(term): the Uint8Array returned, or the error thrown
encode(term) == encodeTerm(term)

----------------------------------------------------------------------------
(* decode: data is the Uint8Array, off the value of ref.offset.  A result  *)
(* is [err, val, off]: the error thrown ("" for none), the value returned  *)
(* and ref.offset afterwards.                                              *)

\* n counts the calls of decodeTerm that read a tag
DOk(v, o) == [err |-> "", val |-> v, off |-> o, n |-> 0]
DThrow(e) == [err |-> e, val |-> Null, off |-> 0, n |-> 0]

Counted(r, k) == [r EXCEPT !.n = k]

\* data[i]: undefined outside the array
ReadAt(data, i) == IF i >= 0 /\ i < Len(data) THEN data[i + 1] ELSE Undefined

\* data.slice(from, to): both ends are clamped to the array
Slice(data, from, to) ==
    LET lo == IF from > Len(data) THEN Len(data) ELSE from
        hi == IF to > Len(data) THEN Len(data) ELSE to
    IN IF hi <= lo THEN <<>> ELSE SubSeq(data, lo + 1, hi)

\* the magnitude loop of decodeVarint; BigInt(undefined) throws a TypeError.
\* mag = (mag << 8n) | byte appends a digit; the bigint has no leading zeros.
RECURSIVE readMagnitude(_, _, _, _)
readMagnitude(data, off, length, mag) ==
    IF length = 0 THEN DOk(mag, off)
    ELSE LET byte == ReadAt(data, off)
         IN IF byte = Undefined THEN DThrow("TypeError")
            ELSE readMagnitude(data, off + 1, length - 1,
                               StripZeros(Append(mag, byte)))

\* the bound is tested with >= instead of >
decodeVarint_BoundOffByOne(data, off) ==
    LET header == ReadAt(data, off)
        signBit == IF header = Undefined THEN 0 ELSE header \div 128
        length == IF header = Undefined THEN 0 ELSE header % 128
        m == readMagnitude(data, off + 1, length, <<>>)
    IN IF header = 0 THEN DOk(Big(FALSE, <<>>), off + 1)
       ELSE IF header = 128 THEN DThrow("noncanonical_zero")
       ELSE IF m.err # "" THEN m
       ELSE IF MagGreater(m.val, MAX_SAFE_INTEGER) \/ m.val = MAX_SAFE_INTEGER
            THEN DThrow("length_overflow")
       ELSE IF signBit = 1 THEN DOk(Big(m.val # <<>>, m.val), m.off)
       ELSE DOk(Big(FALSE, m.val), m.off)

decodeVarint(data, off) ==
    LET header == ReadAt(data, off)
        signBit == IF header = Undefined THEN 0 ELSE header \div 128
        length == IF header = Undefined THEN 0 ELSE header % 128
        m == readMagnitude(data, off + 1, length, <<>>)
    IN IF header = 0 THEN DOk(Big(FALSE, <<>>), off + 1)
       ELSE IF header = 128 THEN DThrow("noncanonical_zero")
       ELSE IF m.err # "" THEN m
       ELSE IF MagGreater(m.val, MAX_SAFE_INTEGER) THEN DThrow("length_overflow")
       ELSE IF signBit = 1 THEN DOk(Big(m.val # <<>>, m.val), m.off)
       ELSE DOk(Big(FALSE, m.val), m.off)

\* the sign of a length is not looked at
decodeVarintGteZero_SignIgnored(data, off) ==
    LET n == decodeVarint(data, off)
    IN IF n.err # "" THEN n ELSE DOk(NumberOf(n.val.b), n.off)

\* returns Number(n) in val
decodeVarintGteZero(data, off) ==
    LET n == decodeVarint(data, off)
    IN IF n.err # "" THEN n
       ELSE IF n.val.f THEN DThrow("length_is_negative")
       ELSE DOk(NumberOf(n.val.b), n.off)

\* Map.prototype.set: keys are compared by SameValueZero, so a bigint, a
\* boolean or null replaces the value of an equal key (keeping its place),
\* while every Uint8Array, Array and Map is a fresh object and a new key
RECURSIVE MapSet(_, _, _)
MapSet(map, key, value) ==
    IF map = <<>> THEN <<Entry(key, value)>>
    ELSE IF key.t \in {"null", "boolean", "bigint"} /\ Head(map).k = key
         THEN <<Entry(key, value)>> \o Tail(map)
    ELSE <<Head(map)>> \o MapSet(Tail(map), key, value)

RECURSIVE decodeTerm(_, _)
RECURSIVE decodeItems(_, _, _, _, _)
RECURSIVE decodeEntries(_, _, _, _, _, _)
RECURSIVE decodeEntries_EqualKeysPass(_, _, _, _, _, _)

\* for (let i = 0; i < count; i++) items[i] = decodeTerm(data, ref)
decodeItems(data, off, i, count, items) ==
    IF ~(i < count) THEN DOk(Arr(items), off)
    ELSE LET item == decodeTerm(data, off)
         IN IF item.err # "" THEN item
            ELSE LET rest == decodeItems(data, item.off, i + 1, count,
                                         Append(items, item.val))
                 IN Counted(rest, item.n + rest.n)

\* the canonical check is < 0 instead of <= 0: a repeated key is let through
decodeEntries_EqualKeysPass(data, off, idx, count, prevKeyBytes, map) ==
    IF ~(idx < count) THEN DOk(MapOf(map), off)
    ELSE LET kStart == off
             key == decodeTerm(data, off)
             kEnd == key.off
             keyBytes == Slice(data, kStart, kEnd)
             value == decodeTerm(data, key.off)
         IN IF key.err # "" THEN key
            ELSE IF prevKeyBytes # <<>> /\ compareBytes(keyBytes, prevKeyBytes) < 0
                 THEN Counted(DThrow("map_not_canonical"), key.n)
            ELSE IF value.err # "" THEN Counted(value, key.n + value.n)
            ELSE LET rest == decodeEntries_EqualKeysPass(data, value.off, idx + 1, count, keyBytes,
                                MapSet(map, key.val, value.val))
                 IN Counted(rest, key.n + value.n + rest.n)

\* the loop of the TYPE_MAP case; prevKeyBytes = <<>> stands for null (the
\* bytes of a decoded key are never empty)
decodeEntries(data, off, idx, count, prevKeyBytes, map) ==
    IF ~(idx < count) THEN DOk(MapOf(map), off)
    ELSE LET kStart == off
             key == decodeTerm(data, off)
             kEnd == key.off
             keyBytes == Slice(data, kStart, kEnd)
             value == decodeTerm(data, key.off)
         IN IF key.err # "" THEN key
            ELSE IF prevKeyBytes # <<>> /\ compareBytes(keyBytes, prevKeyBytes) <= 0
                 THEN Counted(DThrow("map_not_canonical"), key.n)
            ELSE IF value.err # "" THEN Counted(value, key.n + value.n)
            ELSE LET rest == decodeEntries(data, value.off, idx + 1, count, keyBytes,
                                MapSet(map, key.val, value.val))
                 IN Counted(rest, key.n + value.n + rest.n)

\* an unassigned tag is read as null
decodeTerm_UnknownTagIsNull(data, off) ==
    IF off >= Len(data) THEN DThrow("decodeBytes: Out of bounds read")
    ELSE LET type == data[off + 1]
             next == off + 1
             r == CASE type = TYPE_NULL -> DOk(Null, next)
              [] type = TYPE_TRUE -> DOk(Bool(TRUE), next)
              [] type = TYPE_FALSE -> DOk(Bool(FALSE), next)
              [] type = TYPE_INT -> decodeVarint(data, next)
              [] type = TYPE_BYTES ->
                   LET length == decodeVarintGteZero(data, next)
                   IN IF length.err # "" THEN length
                      ELSE DOk(U8(Slice(data, length.off, length.off + length.val)),
                               length.off + length.val)
              [] type = TYPE_LIST ->
                   LET count == decodeVarintGteZero(data, next)
                   IN IF count.err # "" THEN count
                      \* new Array(count): RangeError above 2^32 - 1
                      ELSE IF count.val >= Huge53 THEN DThrow("RangeError")
                      ELSE decodeItems(data, count.off, 0, count.val, <<>>)
              [] type = TYPE_MAP ->
                   LET count == decodeVarintGteZero(data, next)
                   IN IF count.err # "" THEN count
                      ELSE decodeEntries(data, count.off, 0, count.val, <<>>, <<>>)
              [] OTHER -> DOk(Null, next)
         IN Counted(r, r.n + 1)

\* the cursor is not compared with the length before the tag is read
decodeTerm_NoGuard(data, off) ==
    LET type == ReadAt(data, off)
        next == off + 1
        r == CASE type = TYPE_NULL -> DOk(Null, next)
         [] type = TYPE_TRUE -> DOk(Bool(TRUE), next)
         [] type = TYPE_FALSE -> DOk(Bool(FALSE), next)
         [] type = TYPE_INT -> decodeVarint(data, next)
         [] type = TYPE_BYTES ->
              LET length == decodeVarintGteZero(data, next)
              IN IF length.err # "" THEN length
                 ELSE DOk(U8(Slice(data, length.off, length.off + length.val)),
                          length.off + length.val)
         [] type = TYPE_LIST ->
              LET count == decodeVarintGteZero(data, next)
              IN IF count.err # "" THEN count
                 \* new Array(count): RangeError above 2^32 - 1
                 ELSE IF count.val >= Huge53 THEN DThrow("RangeError")
                 ELSE decodeItems(data, count.off, 0, count.val, <<>>)
         [] type = TYPE_MAP ->
              LET count == decodeVarintGteZero(data, next)
              IN IF count.err # "" THEN count
                 ELSE decodeEntries(data, count.off, 0, count.val, <<>>, <<>>)
         [] OTHER -> DThrow("decodeBytes: Unknown type")
    IN Counted(r, r.n + 1)

decodeTerm(data, off) ==
    IF off >= Len(data) THEN DThrow("decodeBytes: Out of bounds read")
    ELSE LET type == data[off + 1]
             next == off + 1
             r == CASE type = TYPE_NULL -> DOk(Null, next)
              [] type = TYPE_TRUE -> DOk(Bool(TRUE), next)
              [] type = TYPE_FALSE -> DOk(Bool(FALSE), next)
              [] type = TYPE_INT -> decodeVarint(data, next)
              [] type = TYPE_BYTES ->
                   LET length == decodeVarintGteZero(data, next)
                   IN IF length.err # "" THEN length
                      ELSE DOk(U8(Slice(data, length.off, length.off + length.val)),
                               length.off + length.val)
              [] type = TYPE_LIST ->
                   LET count == decodeVarintGteZero(data, next)
                   IN IF count.err # "" THEN count
                      \* new Array(count): RangeError above 2^32 - 1
                      ELSE IF count.val >= Huge53 THEN DThrow("RangeError")
                      ELSE decodeItems(data, count.off, 0, count.val, <<>>)
              [] type = TYPE_MAP ->
                   LET count == decodeVarintGteZero(data, next)
                   IN IF count.err # "" THEN count
                      ELSE decodeEntries(data, count.off, 0, count.val, <<>>, <<>>)
              [] OTHER -> DThrow("decodeBytes: Unknown type")
         IN Counted(r, r.n + 1)

\* only a cursor short of the end of the input is an error
decode_CursorMayPass(bytes) ==
    LET data == bytes
        value == decodeTerm(data, 0)
    IN IF value.err # "" THEN Throw(value.err)
       ELSE IF value.off < Len(data) THEN Throw("trailing_bytes")
       ELSE Ok(value.val)

\* the cursor is not compared with the length of the input
decode_NoTrailingCheck(bytes) ==
    LET data == bytes
        value == decodeTerm(data, 0)
    IN IF value.err # "" THEN Throw(value.err) ELSE Ok(value.val)

\* decode(bytes): the value returned, or the error thrown
decode(bytes) ==
    LET data == bytes
        value == decodeTerm(data, 0)
    IN IF value.err # "" THEN Throw(value.err)
       ELSE IF value.off # Len(data) THEN Throw("trailing_bytes")
       ELSE Ok(value.val)

----------------------------------------------------------------------------
(* bounded inputs *)

\* longest Array / number of entries of a Map or object given to encode
MaxLen == 2
\* levels of nesting put around a value given to encode
MaxDepth == 1
\* longest buffer of arbitrary bytes given to decode
MaxBuf == 4
\* most bytes appended to an encoded buffer
MaxTrail == 1
\* most entries of a hand-built map given to decode
MaxPieces == 3

SeqsUpTo(S, n) == UNION {[1..k -> S] : k \in 0..n}

Ones(n) == [i \in 1..n |-> 255]

\* 2^53 and 2^53 + 1, the first magnitudes above Number.MAX_SAFE_INTEGER
TwoTo53 == <<32, 0, 0, 0, 0, 0, 0>>
TwoTo53Plus1 == <<32, 0, 0, 0, 0, 0, 1>>
\* 2^128 - 1 and 2^128: the largest 16-byte and the smallest 17-byte magnitude
TwoTo128Minus1 == Ones(16)
TwoTo128 == <<1>> \o [i \in 1..16 |-> 0]

Float == [t |-> "float", f |-> FALSE, b |-> <<>>, items |-> <<>>]
UndefinedValue == [t |-> "undefined", f |-> FALSE, b |-> <<>>, items |-> <<>>]

Scalars ==
    {Null, Bool(TRUE), Bool(FALSE),
     Num(FALSE, <<>>), Num(FALSE, <<1>>), Num(TRUE, <<1>>), Num(FALSE, <<1, 0>>),
     Num(FALSE, MAX_SAFE_INTEGER), Num(TRUE, MAX_SAFE_INTEGER),
     Big(FALSE, <<>>), Big(FALSE, <<1>>), Big(TRUE, <<255>>),
     Big(FALSE, MAX_SAFE_INTEGER), Big(TRUE, MAX_SAFE_INTEGER),
     Big(FALSE, TwoTo53), Big(TRUE, TwoTo53),
     Big(FALSE, TwoTo128Minus1), Big(FALSE, TwoTo128),
     Big(TRUE, TwoTo128Minus1), Big(TRUE, TwoTo128), Num(FALSE, TwoTo128),
     Str(<<>>), Str(<<97>>), Str(<<233>>), Str(<<55357, 56832>>), Str(<<55296>>),
     U8(<<>>), U8(<<97>>), U8(<<1, 2, 3, 255>>),
     Float, UndefinedValue}

Elems == {Null, Bool(TRUE), Num(TRUE, <<1>>), Str(<<233>>), U8(<<1, 2>>)}
MapKeys == {Str(<<97>>), Str(<<98>>), U8(<<97>>), Num(FALSE, <<1>>),
            Big(FALSE, <<1>>), Null}
ObjKeys == {Str(<<97>>), Str(<<98>>), Str(<<55296>>), Str(<<55297>>)}
Vals == {Num(FALSE, <<1>>), Str(<<98>>)}

IsPrimitive(v) ==
    v.t \in {"null", "boolean", "number", "float", "bigint", "string", "undefined"}

\* the keys of a Map are distinct under SameValueZero (two Uint8Arrays of
\* equal content are two keys); the keys of an object are distinct strings
DistinctKeys(entries) ==
    \A i, j \in 1..Len(entries) :
        i < j /\ IsPrimitive(entries[i].k) => entries[i].k # entries[j].k

Arrays == {Arr(s) : s \in SeqsUpTo(Elems, MaxLen)}
Maps ==
    {MapOf(s) : s \in {e \in SeqsUpTo({Entry(k, v) : k \in MapKeys, v \in Vals}, MaxLen) :
                          DistinctKeys(e)}}
Objects ==
    {Obj(s) : s \in {e \in SeqsUpTo({Entry(k, v) : k \in ObjKeys, v \in Vals}, MaxLen) :
                        DistinctKeys(e)}}

\* one more level of nesting around v: as an element, as a value and as a key
Nest(v) ==
    {Arr(<<v>>),
     MapOf(<<Entry(Str(<<98>>), v), Entry(Str(<<97>>), Null)>>),
     MapOf(<<Entry(v, Null)>>)}

RECURSIVE Nested(_, _)
Nested(S, d) ==
    IF d = 0 THEN S ELSE S \cup Nested(UNION {Nest(v) : v \in S}, d - 1)

Terms == Nested(Scalars \cup Arrays \cup Maps \cup Objects, MaxDepth)

\* bytes of the arbitrary buffers: every tag, the unassigned tags 4 and 8,
\* and the varint headers 0x80 and 0x81
ByteAlphabet == {0, 1, 2, 3, 4, 5, 6, 7, 8, 128, 129}
ShortBuffers == SeqsUpTo(ByteAlphabet, MaxBuf)

\* magnitudes around Number.MAX_SAFE_INTEGER, 2^24 and 2^32, some written
\* with a leading zero byte
VarintMags ==
    {MAX_SAFE_INTEGER, TwoTo53, TwoTo53Plus1, <<0>> \o MAX_SAFE_INTEGER,
     <<0>> \o TwoTo53, Ones(7), Ones(8), <<1, 0, 0, 0>>, <<1, 0, 0, 0, 0>>,
     <<0, 0, 5>>}

\* a tag, a complete varint of either sign, and possibly one more term
VarintBuffers ==
    {<<tag, sign + Len(m)>> \o m \o tail :
        tag \in {TYPE_INT, TYPE_BYTES, TYPE_LIST, TYPE_MAP}, sign \in {0, 128},
        m \in VarintMags, tail \in {<<>>, <<TYPE_NULL>>}}

\* hand-built maps: the bytes of each key and each value are chosen on their
\* own (canonical terms, an integer with a leading zero byte, an unassigned
\* tag, a truncated integer), in any order
KeyPieces == {<<0>>, <<3, 1, 1>>, <<3, 2, 0, 1>>, <<5, 1, 1, 97>>, <<4>>}
ValPieces == {<<0>>, <<3, 1>>, <<8>>}
Prefixes == {<<>>, <<TYPE_LIST, 1, 1>>, <<TYPE_MAP, 1, 1, TYPE_NULL>>}

RECURSIVE Concat(_)
Concat(pieces) ==
    IF pieces = <<>> THEN <<>>
    ELSE Head(pieces).k \o Head(pieces).v \o Concat(Tail(pieces))

BuildMap(prefix, pieces) ==
    prefix \o <<TYPE_MAP>> \o encodeVarint(Num(FALSE, MagOf(Len(pieces)))).val
           \o Concat(pieces)

PieceSeqs ==
    UNION {[1..n -> {Entry(k, v) : k \in KeyPieces, v \in ValPieces}] : n \in 1..MaxPieces}

TrailBytes == {0, 3, 255}
Trailers == SeqsUpTo(TrailBytes, MaxTrail) \ {<<>>}

\* the same value with the entries of its Maps and objects, at any depth,
\* inserted in another order
Perms(n) == {p \in [1..n -> 1..n] : \A i, j \in 1..n : i # j => p[i] # p[j]}

RECURSIVE Reorderings(_)
Reorderings(v) ==
    LET n == Len(v.items)
    IN IF v.t = "Array"
       THEN {[v EXCEPT !.items = s] :
               s \in {x \in [1..n -> UNION {Reorderings(v.items[i]) : i \in 1..n}] :
                         \A i \in 1..n : x[i] \in Reorderings(v.items[i])}}
       ELSE IF v.t \in {"Map", "object"}
       THEN LET variants(i) == {Entry(k, w) : k \in Reorderings(v.items[i].k),
                                              w \in Reorderings(v.items[i].v)}
                choices == {x \in [1..n -> UNION {variants(i) : i \in 1..n}] :
                              \A i \in 1..n : x[i] \in variants(i)}
            IN {[v EXCEPT !.items = [i \in 1..n |-> x[p[i]]]] :
                  x \in choices, p \in Perms(n)}
       ELSE {v}

----------------------------------------------------------------------------
(* the state machine: a caller that encodes a value, decodes buffers and   *)
(* encodes what decode returned                                            *)

VARIABLES
    pc,          \* what the caller does next
    origin,      \* where data comes from: "encode", "appended", "truncated",
                 \* "received" (arbitrary bytes) or "handbuilt" (a map)
    term,        \* the value given to encode
    encoded,     \* what encode(term) returned or threw
    prevEncoded, \* what encode returned for the value before it was reordered
    data,        \* the buffer given to decode
    pieces,      \* the key and value bytes a hand-built map was made of
    decoded,     \* what decode(data) returned or threw
    ref,         \* the DecodeRef of that call after decodeTerm returned, with
                 \* the number of terms that call decoded
    reencoded    \* what encode returned for the decoded value

codecvars == <<pc, origin, term, encoded, prevEncoded, data, pieces, decoded, ref,
               reencoded>>

\* the state of a TransactionBuilder and of the clock it reads
VARIABLES
    now,         \* milliseconds that Date.now() has advanced since EpochMs
    unsignedTx,  \* what the last build / buildUnsignedTransaction returned
    results      \* what sign / buildAndSign returned so far, oldest first

txvars == <<now, unsignedTx, results>>

\* the state of an AmadeusClient and of the requests it has started
VARIABLES
    abortController, \* the request whose AbortController the client holds, 0 for null
    requests,        \* every call of get / post so far, oldest first
    config,          \* this.config: baseUrl, timeout, headers
    lastCall         \* the last constructor / setBaseUrl / setHeaders call

configvars == <<config, lastCall>>

clientvars == <<abortController, requests, config, lastCall>>

\* the calls made on the API classes, with what each did to its client
VARIABLES
    apiCalls

apivars == <<apiCalls>>

\* the keys of a keyed collection under the comparator and the sort of encode
VARIABLES
    keys,        \* the encoded bytes of three keys: a, b, c
    order,       \* what compareBytes returned for the pairs of keys
    sorted       \* the orders entries.sort left the keys in, one for each
                 \* order of insertion

sortvars == <<keys, order, sorted>>

vars == <<codecvars, txvars, clientvars, apivars, sortvars>>

NoResult == [err |-> "unset", val |-> <<>>]

\* const ref: DecodeRef = { offset: 0 }
NoRef == [offset |-> 0, terms |-> 0]

NoTx == [input |-> [contract |-> <<>>, method |-> <<>>, args |-> <<>>], tx |-> Null, hash |-> <<>>]

\* no TransactionBuilder has been made
TxIdle ==
    /\ now = 0
    /\ unsignedTx = NoTx
    /\ results = <<>>

\* URLs are sequences of pieces: a scheme with its colon, a slash, a letter
\* of a host or path, a space. NODE_API_URL = 'https://nodes.amadeus.bot/api'
NODE_API_URL == <<"https:", "/", "/", "a", "/", "a">>

DEFAULT_TIMEOUT == 30000

\* 'Content-Type' and 'User-Agent' of the constructor
DefaultHeaders ==
    {<<"Content-Type", "application/octet-stream">>, <<"User-Agent", "@amadeus-protocol/sdk">>}

Config(baseUrl, timeout, headers) ==
    [baseUrl |-> baseUrl, timeout |-> timeout, headers |-> headers]

\* no client has been constructed
NoConfig == Config(<<>>, 0, {})

ConfigCall(op, url, threw) == [op |-> op, url |-> url, threw |-> threw]

NoCall == ConfigCall("", <<>>, "")

\* a client made by new AmadeusClient({}) that has made no request
ClientIdle ==
    /\ abortController = 0
    /\ requests = <<>>
    /\ config = Config(NODE_API_URL, DEFAULT_TIMEOUT, DefaultHeaders)
    /\ lastCall = NoCall

\* no API method has been called
ApiIdle == apiCalls = <<>>

NoOrder == [ab |-> 0, ba |-> 0, bc |-> 0, ac |-> 0, done |-> FALSE]

\* no keyed collection is being sorted
SortIdle ==
    /\ keys = <<>>
    /\ order = NoOrder
    /\ sorted = {}

\* no caller of encode / decode is running
CodecIdle ==
    /\ pc = "idle"
    /\ origin = "none"
    /\ term = Null
    /\ encoded = NoResult
    /\ prevEncoded = NoResult
    /\ data = <<>>
    /\ pieces = <<>>
    /\ decoded = NoResult
    /\ ref = NoRef
    /\ reencoded = NoResult

Init ==
    /\ TxIdle
    /\ ClientIdle
    /\ ApiIdle
    /\ SortIdle
    /\ encoded = NoResult
    /\ prevEncoded = NoResult
    /\ decoded = NoResult
    /\ ref = NoRef
    /\ reencoded = NoResult
    /\ \/ /\ pc = "init"
          /\ origin = "encode"
          /\ term \in Terms
          /\ data = <<>>
          /\ pieces = <<>>
       \/ /\ pc = "received"
          /\ origin = "received"
          /\ term = Null
          /\ data \in ShortBuffers \cup VarintBuffers
          /\ pieces = <<>>
       \/ /\ pc = "received"
          /\ origin = "handbuilt"
          /\ term = Null
          /\ pieces \in PieceSeqs
          /\ \E prefix \in Prefixes : data = BuildMap(prefix, pieces)

\* const encoded = encode(term)
Encode ==
    /\ pc = "init"
    /\ encoded' = encode(term)
    /\ data' = IF encoded'.err = "" THEN encoded'.val ELSE data
    /\ pc' = "encoded"
    /\ UNCHANGED <<origin, term, prevEncoded, pieces, decoded, ref, reencoded>>
    /\ UNCHANGED <<txvars, clientvars, apivars, sortvars>>

\* encode of the same entries inserted in another order
EncodeReordered ==
    /\ pc = "encoded"
    /\ \E other \in Reorderings(term) \ {term} :
          /\ term' = other
          /\ encoded' = encode(other)
    /\ prevEncoded' = encoded
    /\ pc' = "compared"
    /\ UNCHANGED <<origin, data, pieces, decoded, ref, reencoded>>
    /\ UNCHANGED <<txvars, clientvars, apivars, sortvars>>

\* a string-keyed object or Map given the other ways: as a Map with the keys
\* as text, as a Map with the keys as the UTF-8 bytes of the text, as an object
KeyedVariants(v) ==
    IF v.t \in {"Map", "object"} /\ \A i \in 1..Len(v.items) : v.items[i].k.t = "string"
    THEN {MapOf(v.items), Obj(v.items),
          MapOf([i \in 1..Len(v.items) |->
                    Entry(U8(TextEncode(v.items[i].k.b)), v.items[i].v)])}
    ELSE {}

\* encode of the same keys and values given as another keyed collection
EncodeAsOtherCollection ==
    /\ pc = "encoded"
    /\ \E other \in KeyedVariants(term) \ {term} :
          /\ term' = other
          /\ encoded' = encode(other)
    /\ prevEncoded' = encoded
    /\ pc' = "converted"
    /\ UNCHANGED <<origin, data, pieces, decoded, ref, reencoded>>
    /\ UNCHANGED <<txvars, clientvars, apivars, sortvars>>

\* const decoded = decode(data)
Decode ==
    /\ \/ pc = "encoded" /\ encoded.err = ""
       \/ pc \in {"received", "changed"}
    /\ decoded' = decode(data)
    /\ ref' = [offset |-> decodeTerm(data, 0).off, terms |-> decodeTerm(data, 0).n]
    /\ pc' = "decoded"
    /\ UNCHANGED <<origin, term, encoded, prevEncoded, data, pieces, reencoded>>
    /\ UNCHANGED <<txvars, clientvars, apivars, sortvars>>

\* encode(decoded)
ReEncode ==
    /\ pc = "decoded"
    /\ decoded.err = ""
    /\ reencoded' = encode(decoded.val)
    /\ pc' = "done"
    /\ UNCHANGED <<origin, term, encoded, prevEncoded, data, pieces, decoded, ref>>
    /\ UNCHANGED <<txvars, clientvars, apivars, sortvars>>

\* bytes are appended to a buffer that encode produced and decode accepted
AppendTrailing ==
    /\ pc = "decoded"
    /\ origin = "encode"
    /\ decoded.err = ""
    /\ \E x \in Trailers : data' = data \o x
    /\ origin' = "appended"
    /\ pc' = "changed"
    /\ UNCHANGED <<term, encoded, prevEncoded, pieces, decoded, ref, reencoded>>
    /\ UNCHANGED <<txvars, clientvars, apivars, sortvars>>

\* a buffer that encode produced and decode accepted loses its last bytes
Truncate ==
    /\ pc = "decoded"
    /\ origin = "encode"
    /\ decoded.err = ""
    /\ \E n \in 0..(Len(data) - 1) : data' = SubSeq(data, 1, n)
    /\ origin' = "truncated"
    /\ pc' = "changed"
    /\ UNCHANGED <<term, encoded, prevEncoded, pieces, decoded, ref, reencoded>>
    /\ UNCHANGED <<txvars, clientvars, apivars, sortvars>>

\* a buffer that was received and that decode accepted loses its last bytes
TruncateAccepted ==
    /\ pc = "decoded"
    /\ origin \in {"received", "handbuilt"}
    /\ decoded.err = ""
    /\ \E n \in 0..(Len(data) - 1) : data' = SubSeq(data, 1, n)
    /\ origin' = "prefix"
    /\ pc' = "changed"
    /\ UNCHANGED <<term, encoded, prevEncoded, pieces, decoded, ref, reencoded>>
    /\ UNCHANGED <<txvars, clientvars, apivars, sortvars>>

Next ==
    \/ Encode
    \/ EncodeReordered
    \/ EncodeAsOtherCollection
    \/ Decode
    \/ ReEncode
    \/ AppendTrailing
    \/ Truncate
    \/ TruncateAccepted

Spec == Init /\ [][Next]_vars

----------------------------------------------------------------------------
(* TransactionBuilder: build, sign and buildAndSign of contract calls      *)

\* the keys and the fixed words of a transaction, as UTF-16 code units
Ascii ==
    [signer |-> <<115, 105, 103, 110, 101, 114>>,
     nonce |-> <<110, 111, 110, 99, 101>>,
     action |-> <<97, 99, 116, 105, 111, 110>>,
     op |-> <<111, 112>>,
     contract |-> <<99, 111, 110, 116, 114, 97, 99, 116>>,
     function |-> <<102, 117, 110, 99, 116, 105, 111, 110>>,
     args |-> <<97, 114, 103, 115>>,
     tx |-> <<116, 120>>,
     hash |-> <<104, 97, 115, 104>>,
     signature |-> <<115, 105, 103, 110, 97, 116, 117, 114, 101>>,
     call |-> <<99, 97, 108, 108>>,
     Coin |-> <<67, 111, 105, 110>>,
     transfer |-> <<116, 114, 97, 110, 115, 102, 101, 114>>,
     AMA |-> <<65, 77, 65>>]

\* a value of Date.now() while the program runs: 1 700 000 000 000 ms after
\* 1970, as big-endian base-256 digits
EpochMs == <<1, 139, 207, 229, 104, 0>>

\* mag * k + carry for a magnitude and small non-negative k and carry
RECURSIVE TimesPlus(_, _, _)
TimesPlus(mag, k, carry) ==
    IF mag = <<>> THEN MagOf(carry)
    ELSE LET p == (mag[Len(mag)] * k) + carry
         IN  Append(TimesPlus(SubSeq(mag, 1, Len(mag) - 1), k, p \div 256), p % 256)

\* BigInt(Date.now()) when the clock stands at EpochMs + t
DateNow(t) == TimesPlus(EpochMs, 1, t)

\* BigInt(Date.now()) * 1_000_000n
generateNonce(t) == Big(FALSE, StripZeros(TimesPlus(DateNow(t), 1000000, 0)))

\* the keys of the builder: bls public key and secret key
SignerPk == <<7>>
SignerSk == <<9>>

\* sha256 of @noble/hashes: a digest that differs whenever the bytes differ
sha256(bytes) == <<Len(bytes) % 256>> \o bytes

\* bls.sign(hash, sk, {DST}): a signature that names the key and the hash
signHash(hash, sk) == sk \o hash

\* bs58 text of a buffer: texts differ whenever the buffers differ
toBase58(buf) == [base58 |-> buf]

createTransaction(signer, contract, method, args, t) ==
    Obj(<<Entry(Str(Ascii.signer), U8(signer)),
          Entry(Str(Ascii.nonce), generateNonce(t)),
          Entry(Str(Ascii.action),
                Obj(<<Entry(Str(Ascii.op), Str(Ascii.call)),
                      Entry(Str(Ascii.contract), Str(contract)),
                      Entry(Str(Ascii.function), Str(method)),
                      Entry(Str(Ascii.args), Arr(args))>>))>>)

\* { tx, hash } with hash = sha256(encode(tx))
buildUnsignedTransaction(signerPk, input, t) ==
    LET tx == createTransaction(signerPk, input.contract, input.method, input.args, t)
    IN  [input |-> input, tx |-> tx, hash |-> sha256(encode(tx).val)]

\* { txHash, txPacked } of an unsigned transaction
signTransaction(unsigned, sk) ==
    LET signature == signHash(unsigned.hash, sk)
    IN  [input |-> unsigned.input,
         tx |-> unsigned.tx,
         txHash |-> toBase58(unsigned.hash),
         txPacked |-> encode(Obj(<<Entry(Str(Ascii.tx), unsigned.tx),
                                   Entry(Str(Ascii.hash), U8(unsigned.hash)),
                                   Entry(Str(Ascii.signature), U8(signature))>>))]

\* the value under a string key of an object
RECURSIVE Field(_, _)
Field(obj, key) ==
    LET e == obj.items[1]
    IN  IF e.k.b = key THEN e.v ELSE Field(Obj(Tail(obj.items)), key)

MaxTicks == 2
MaxResults == 2

\* what callers ask the builder for: transfers to two recipients, another call
Call(contract, method, args) == [contract |-> contract, method |-> method, args |-> args]

TxInputs ==
    {Call(Ascii.Coin, Ascii.transfer, <<U8(<<1>>), Str(<<49>>), Str(Ascii.AMA)>>),
     Call(Ascii.Coin, Ascii.transfer, <<U8(<<2>>), Str(<<49>>), Str(Ascii.AMA)>>),
     Call(Ascii.Coin, <<102>>, <<>>)}

InitTx ==
    /\ CodecIdle
    /\ ClientIdle
    /\ ApiIdle
    /\ SortIdle
    /\ TxIdle

\* a millisecond passes
Tick ==
    /\ now < MaxTicks
    /\ now' = now + 1
    /\ UNCHANGED <<unsignedTx, results>>
    /\ UNCHANGED <<codecvars, clientvars, apivars, sortvars>>

\* builder.build(contract, method, args)
Build ==
    /\ \E input \in TxInputs :
          unsignedTx' = buildUnsignedTransaction(SignerPk, input, now)
    /\ UNCHANGED <<now, results>>
    /\ UNCHANGED <<codecvars, clientvars, apivars, sortvars>>

\* the action of tx replaced by a call of another contract function
WithCall(tx, input) ==
    Obj(<<tx.items[1], tx.items[2],
          Entry(Str(Ascii.action),
                Obj(<<Entry(Str(Ascii.op), Str(Ascii.call)),
                      Entry(Str(Ascii.contract), Str(input.contract)),
                      Entry(Str(Ascii.function), Str(input.method)),
                      Entry(Str(Ascii.args), Arr(input.args))>>))>>)

\* the caller changes unsignedTx.tx between build and sign ("Can inspect or
\* modify before signing"); unsignedTx.hash stays what build computed
Modify ==
    /\ unsignedTx # NoTx
    /\ \E input \in TxInputs \ {unsignedTx.input} :
          unsignedTx' = [unsignedTx EXCEPT !.input = input,
                                           !.tx = WithCall(unsignedTx.tx, input)]
    /\ UNCHANGED <<now, results>>
    /\ UNCHANGED <<codecvars, clientvars, apivars, sortvars>>

\* builder.sign(unsignedTx)
Sign ==
    /\ unsignedTx # NoTx
    /\ Len(results) < MaxResults
    /\ results' = Append(results, signTransaction(unsignedTx, SignerSk))
    /\ UNCHANGED <<now, unsignedTx>>
    /\ UNCHANGED <<codecvars, clientvars, apivars, sortvars>>

\* builder.buildAndSign(contract, method, args), builder.transfer(input)
BuildAndSign ==
    /\ Len(results) < MaxResults
    /\ \E input \in TxInputs :
          results' = Append(results,
                signTransaction(buildUnsignedTransaction(SignerPk, input, now), SignerSk))
    /\ UNCHANGED <<now, unsignedTx>>
    /\ UNCHANGED <<codecvars, clientvars, apivars, sortvars>>

NextTx ==
    \/ Tick
    \/ Build
    \/ Modify
    \/ Sign
    \/ BuildAndSign

SpecTx == InitTx /\ [][NextTx]_vars

----------------------------------------------------------------------------
(* AmadeusClient: get / post, the timeout timer, cancel, handleResponse    *)

\* parsed JSON and text: an object is its set of <<key, value>> members
JsonObject(members) == [type |-> "object", members |-> members, text |-> ""]
JsonText(text) == [type |-> "string", members |-> {}, text |-> text]
NoData == [type |-> "undefined", members |-> {}, text |-> ""]

HasKey(obj, key) == \E m \in obj.members : m[1] = key
ValueOf(obj, key) == (CHOOSE m \in obj.members : m[1] = key)[2]

\* what a call returned or threw: AmadeusSDKError(message, status, response)
Returned(value) == [threw |-> FALSE, status |-> Undefined, value |-> value]
SDKError(status, response) == [threw |-> TRUE, status |-> status, value |-> response]
NoOutcome == [threw |-> FALSE, status |-> Undefined, value |-> NoData]

\* a body as the server sent it: its text, whether the text is JSON and
\* what it parses to, and the <title> of an HTML page
Body(parses, json, text, title) ==
    [parses |-> parses, data |-> json, text |-> text, title |-> title]

Response(ok, status, contentType, body) ==
    [ok |-> ok, status |-> status, contentType |-> contentType, body |-> body]

NoResponse == Response(FALSE, Undefined, "", Body(FALSE, NoData, "", ""))

\* the ok branch returns the body with its error member
handleResponse_KeepsErrorField(response, readFails) ==
    LET body == response.body
        isJson == response.contentType = "application/json"
        isHtml == response.contentType = "text/html"
    IN  IF ~response.ok
        THEN LET errorData ==
                    IF readFails \/ (isJson /\ ~body.parses)
                    THEN JsonText("Failed to parse error response")
                    ELSE IF isJson THEN body.data
                    ELSE IF isHtml
                         THEN JsonText(IF body.title # "" THEN body.title ELSE "HTTP Error")
                    ELSE JsonText(body.text)
             IN  SDKError(response.status, errorData)
        ELSE IF readFails \/ (isJson /\ ~body.parses)
             THEN SDKError(response.status, NoData)
             ELSE LET parsed == IF body.parses THEN body.data ELSE JsonText(body.text)
                  IN  IF parsed.type = "object" /\ HasKey(parsed, "error")
                      THEN IF ValueOf(parsed, "error") = "ok"
                           THEN Returned(parsed)
                           ELSE IF ValueOf(parsed, "error") = "not_found"
                                THEN SDKError(404, parsed)
                                ELSE SDKError(400, parsed)
                      ELSE Returned(parsed)

\* handleResponse(response); readFails: reading the body rejected (the stream
\* was aborted)
handleResponse(response, readFails) ==
    LET body == response.body
        isJson == response.contentType = "application/json"
        isHtml == response.contentType = "text/html"
    IN  IF ~response.ok
        THEN LET errorData ==
                    IF readFails \/ (isJson /\ ~body.parses)
                    THEN JsonText("Failed to parse error response")
                    ELSE IF isJson THEN body.data
                    ELSE IF isHtml
                         THEN JsonText(IF body.title # "" THEN body.title ELSE "HTTP Error")
                    ELSE JsonText(body.text)
             IN  SDKError(response.status, errorData)
        ELSE IF readFails \/ (isJson /\ ~body.parses)
             THEN SDKError(response.status, NoData)
             ELSE LET parsed == IF body.parses THEN body.data ELSE JsonText(body.text)
                  IN  IF parsed.type = "object" /\ HasKey(parsed, "error")
                      THEN IF ValueOf(parsed, "error") = "ok"
                           THEN Returned(JsonObject({m \in parsed.members : m[1] # "error"}))
                           ELSE IF ValueOf(parsed, "error") = "not_found"
                                THEN SDKError(404, parsed)
                                ELSE SDKError(400, parsed)
                      ELSE Returned(parsed)

\* one call of get / post
Request(phase, timer, aborted, abortedBy, timerOf, response, outcome) ==
    [phase |-> phase,         \* "fetching", "reading" the body, "done"
     timer |-> timer,         \* "armed", "cleared", "fired", "none"
     aborted |-> aborted,     \* the signal of its AbortController
     abortedBy |-> abortedBy, \* "timer", "cancel", "request" or ""
     timerOf |-> timerOf,     \* the request whose timer called abort, or 0
     response |-> response,   \* what fetch resolved to
     outcome |-> outcome]     \* what get / post returned or threw

\* clearTimeout(timeoutId): a timer that has run stays run
ClearTimeout(timer) == IF timer = "armed" THEN "cleared" ELSE timer

\* controller.abort(): the first call sets the signal, later calls do nothing
Abort(reqs, i, by, of) ==
    IF i = 0 \/ reqs[i].aborted THEN reqs
    ELSE [reqs EXCEPT ![i].aborted = TRUE, ![i].abortedBy = by, ![i].timerOf = of]

\* a promise has been rejected by abort() and its continuation has not run:
\* it runs before any timer callback and before any network event
MicrotaskPending ==
    \E i \in 1..Len(requests) :
        requests[i].phase \in {"fetching", "reading"} /\ requests[i].aborted

MaxRequests == 2

Endpoints == {"", "/api/test"}

JsonBodies ==
    {JsonObject({<<"error", "ok">>, <<"data", "value">>}),
     JsonObject({<<"error", "not_found">>}),
     JsonObject({<<"error", "invalid_signature">>, <<"hash", "h">>}),
     JsonObject({<<"error", "">>}),
     JsonObject({<<"data", "value">>})}

Bodies ==
    {Body(TRUE, d, "{}", "") : d \in JsonBodies}
        \cup {Body(FALSE, NoData, "oops", ""), Body(FALSE, NoData, "<html>", "Bad Gateway")}

Responses ==
    {Response(TRUE, 200, ct, b) : ct \in {"application/json", "text/plain"}, b \in Bodies}
        \cup {Response(FALSE, 404, "application/json", b) : b \in Bodies}
        \cup {Response(FALSE, 502, "text/html", b) : b \in Bodies}

InitClient ==
    /\ CodecIdle
    /\ TxIdle
    /\ ApiIdle
    /\ SortIdle
    /\ ClientIdle

\* client.get(endpoint) / client.post(endpoint, parsed) up to the call of fetch
StartRequest ==
    /\ Len(requests) < MaxRequests
    /\ \E endpoint \in Endpoints :
          IF endpoint = ""
          THEN /\ requests' = Append(requests,
                      Request("done", "none", FALSE, "", 0, NoResponse,
                              SDKError(Undefined, NoData)))
               /\ UNCHANGED abortController
          ELSE /\ requests' = Append(Abort(requests, abortController, "request", 0),
                      Request("fetching", "armed", FALSE, "", 0, NoResponse, NoOutcome))
               /\ abortController' = Len(requests) + 1
    /\ UNCHANGED <<codecvars, txvars, apivars, configvars, sortvars>>

\* fetch resolves and the timer is left armed
FetchSettles_TimerLeftArmed ==
    /\ ~MicrotaskPending
    /\ \E i \in 1..Len(requests), response \in Responses :
          /\ requests[i].phase = "fetching"
          /\ requests' = [requests EXCEPT ![i].phase = "reading",
                                          ![i].response = response]
    /\ UNCHANGED abortController
    /\ UNCHANGED <<codecvars, txvars, apivars, configvars, sortvars>>

\* fetch resolves: clearTimeout(timeoutId); return response
FetchSettles ==
    /\ ~MicrotaskPending
    /\ \E i \in 1..Len(requests), response \in Responses :
          /\ requests[i].phase = "fetching"
          /\ requests' = [requests EXCEPT ![i].phase = "reading",
                                          ![i].timer = ClearTimeout(requests[i].timer),
                                          ![i].response = response]
    /\ UNCHANGED abortController
    /\ UNCHANGED <<codecvars, txvars, apivars, configvars, sortvars>>

\* fetch rejects with a network error: AmadeusSDKError('Request failed', 0)
FetchFails ==
    /\ ~MicrotaskPending
    /\ \E i \in 1..Len(requests) :
          /\ requests[i].phase = "fetching"
          /\ requests' = [requests EXCEPT ![i].phase = "done",
                                          ![i].timer = ClearTimeout(requests[i].timer),
                                          ![i].outcome = SDKError(0, NoData)]
    /\ UNCHANGED abortController
    /\ UNCHANGED <<codecvars, txvars, apivars, configvars, sortvars>>

\* the catch block leaves the timer armed
AbortRejects_TimerLeftArmed ==
    /\ \E i \in 1..Len(requests) :
          /\ requests[i].phase = "fetching"
          /\ requests[i].aborted
          /\ requests' = [requests EXCEPT ![i].phase = "done",
                                          ![i].outcome = SDKError(408, NoData)]
    /\ UNCHANGED abortController
    /\ UNCHANGED <<codecvars, txvars, apivars, configvars, sortvars>>

\* fetch rejects with AbortError: AmadeusSDKError('Request timeout', 408)
AbortRejects ==
    /\ \E i \in 1..Len(requests) :
          /\ requests[i].phase = "fetching"
          /\ requests[i].aborted
          /\ requests' = [requests EXCEPT ![i].phase = "done",
                                          ![i].timer = ClearTimeout(requests[i].timer),
                                          ![i].outcome = SDKError(408, NoData)]
    /\ UNCHANGED abortController
    /\ UNCHANGED <<codecvars, txvars, apivars, configvars, sortvars>>

\* the callback of setTimeout runs: this.abortController?.abort()
\* (timers of one client have one delay, so they run in the order armed)
TimerFires ==
    /\ ~MicrotaskPending
    /\ \E i \in 1..Len(requests) :
          /\ requests[i].timer = "armed"
          /\ \A j \in 1..(i - 1) : requests[j].timer # "armed"
          /\ requests' = [Abort(requests, abortController, "timer", i)
                              EXCEPT ![i].timer = "fired"]
    /\ UNCHANGED abortController
    /\ UNCHANGED <<codecvars, txvars, apivars, configvars, sortvars>>

\* handleResponse(response) finishes reading the body
BodyRead ==
    /\ \E i \in 1..Len(requests) :
          /\ requests[i].phase = "reading"
          /\ requests[i].aborted \/ ~MicrotaskPending
          /\ requests' = [requests EXCEPT
                ![i].phase = "done",
                ![i].outcome = handleResponse(requests[i].response, requests[i].aborted)]
    /\ UNCHANGED abortController
    /\ UNCHANGED <<codecvars, txvars, apivars, configvars, sortvars>>

\* cancel() drops the controller without calling abort()
Cancel_ForgetsOnly ==
    /\ abortController' = 0
    /\ UNCHANGED requests
    /\ UNCHANGED <<codecvars, txvars, apivars, configvars, sortvars>>

\* client.cancel()
Cancel ==
    /\ requests' = Abort(requests, abortController, "cancel", 0)
    /\ abortController' = 0
    /\ UNCHANGED <<codecvars, txvars, apivars, configvars, sortvars>>

NextClient ==
    \/ StartRequest
    \/ FetchSettles
    \/ FetchFails
    \/ AbortRejects
    \/ TimerFires
    \/ BodyRead
    \/ Cancel

SpecClient == InitClient /\ [][NextClient]_vars

----------------------------------------------------------------------------
(* AmadeusClient: the constructor, setBaseUrl, setHeaders                  *)

\* the URL parser removes leading and trailing spaces
RECURSIVE TrimSpaces(_)
TrimSpaces(url) ==
    IF url # <<>> /\ Head(url) = " " THEN TrimSpaces(Tail(url))
    ELSE IF url # <<>> /\ url[Len(url)] = " " THEN TrimSpaces(SubSeq(url, 1, Len(url) - 1))
    ELSE url

\* the slashes after the scheme of an http, https or ftp URL are skipped
RECURSIVE SkipSlashes(_)
SkipSlashes(url) ==
    IF url # <<>> /\ Head(url) = "/" THEN SkipSlashes(Tail(url)) ELSE url

\* the host: what stands before the first slash
RECURSIVE HostOf(_)
HostOf(url) ==
    IF url = <<>> \/ Head(url) = "/" THEN <<>> ELSE <<Head(url)>> \o HostOf(Tail(url))

\* new URL(url).protocol, or "" when new URL(url) throws: a URL without a
\* scheme, without a host or with a space in the host does not parse
ProtocolOf(url) ==
    LET trimmed == TrimSpaces(url)
        host == IF trimmed = <<>> THEN <<>> ELSE HostOf(SkipSlashes(Tail(trimmed)))
    IN  IF trimmed = <<>> \/ trimmed[1] \notin {"http:", "https:", "ftp:"} THEN ""
        ELSE IF host = <<>> \/ \E i \in 1..Len(host) : host[i] # "a" THEN ""
        ELSE trimmed[1]

\* every URL that parses is accepted
isValidUrl_AnyProtocol(url) == ProtocolOf(url) # ""

isValidUrl(url) == ProtocolOf(url) \in {"http:", "https:"}

\* url.replace(/\/+$/, '')
RECURSIVE StripTrailingSlashes(_)
StripTrailingSlashes(url) ==
    IF url # <<>> /\ url[Len(url)] = "/"
    THEN StripTrailingSlashes(SubSeq(url, 1, Len(url) - 1))
    ELSE url

\* { ...this.config.headers, ...headers }
MergeHeaders(old, new) ==
    {h \in old : ~\E n \in new : n[1] = h[1]} \cup new

MaxUrlLen == 2

\* 'https://a/a/', 'https://a//', 'http://a/ ' and 'ftp://a', and every
\* short string with or without a scheme
UrlArgs ==
    {<<"https:", "/", "/", "a", "/", "a", "/">>, <<"https:", "/", "/", "a", "/", "/">>,
     <<"http:", "/", "/", "a", "/", " ">>, <<"ftp:", "/", "/", "a">>}
        \cup {scheme \o rest : scheme \in {<<>>, <<"http:">>, <<"https:">>, <<"ftp:">>},
                                rest \in SeqsUpTo({"/", "a", " "}, MaxUrlLen)}

\* config.baseUrl not given
NoUrl == <<"undefined">>

\* config.timeout: not given, 0, negative and 50
TimeoutArgs == {Undefined, 0, 0 - 5, 50}

HeaderArgs == {{}, {<<"X-Custom", "value">>}}

InitConfig ==
    /\ CodecIdle
    /\ TxIdle
    /\ ApiIdle
    /\ SortIdle
    /\ abortController = 0
    /\ requests = <<>>
    /\ config = NoConfig
    /\ lastCall = NoCall

\* new AmadeusClient({ baseUrl, timeout, headers })
Construct ==
    /\ config = NoConfig
    /\ \E url \in UrlArgs \cup {NoUrl}, timeout \in TimeoutArgs, headers \in HeaderArgs :
          LET baseUrl == IF url = NoUrl \/ url = <<>> THEN NODE_API_URL ELSE url
          IN  IF ~isValidUrl(baseUrl)
              THEN /\ lastCall' = ConfigCall("constructor", url, "AmadeusSDKError")
                   /\ UNCHANGED config
              ELSE /\ lastCall' = ConfigCall("constructor", url, "")
                   /\ config' = Config(StripTrailingSlashes(baseUrl),
                                       IF timeout # Undefined /\ timeout > 0
                                       THEN timeout ELSE DEFAULT_TIMEOUT,
                                       MergeHeaders(DefaultHeaders, headers))
    /\ UNCHANGED <<abortController, requests>>
    /\ UNCHANGED <<codecvars, txvars, apivars, sortvars>>

\* client.setBaseUrl(url)
SetBaseUrl ==
    /\ config # NoConfig
    /\ \E url \in UrlArgs :
          IF ~isValidUrl(url)
          THEN /\ lastCall' = ConfigCall("setBaseUrl", url, "AmadeusSDKError")
               /\ UNCHANGED config
          ELSE /\ lastCall' = ConfigCall("setBaseUrl", url, "")
               /\ config' = [config EXCEPT !.baseUrl = StripTrailingSlashes(url)]
    /\ UNCHANGED <<abortController, requests>>
    /\ UNCHANGED <<codecvars, txvars, apivars, sortvars>>

\* client.setHeaders(headers)
SetHeaders ==
    /\ config # NoConfig
    /\ \E headers \in HeaderArgs :
          config' = [config EXCEPT !.headers = MergeHeaders(config.headers, headers)]
    /\ lastCall' = ConfigCall("setHeaders", <<>>, "")
    /\ UNCHANGED <<abortController, requests>>
    /\ UNCHANGED <<codecvars, txvars, apivars, sortvars>>

NextConfig ==
    \/ Construct
    \/ SetBaseUrl
    \/ SetHeaders
    \/ Cancel

SpecConfig == InitConfig /\ [][NextConfig]_vars

----------------------------------------------------------------------------
(* the API classes: each method validates its arguments and calls the      *)
(* client it was constructed with                                          *)

\* the code units of BASE58_PATTERN: [1-9A-HJ-NP-Za-km-z]
BASE58_PATTERN ==
    (49..57) \cup (65..72) \cup (74..78) \cup (80..90) \cup (97..107) \cup (109..122)

\* Schema.decodeUnknownSync(schema)(value) returns
Accepts(schema, value) ==
    CASE schema = "NonEmptyString" ->
            value.t = "string" /\ value.b # <<>>
      [] schema \in {"Base58Hash", "Base58Address", "Base58PublicKey"} ->
            /\ value.t = "string"
            /\ value.b # <<>>
            /\ \A i \in 1..Len(value.b) : value.b[i] \in BASE58_PATTERN
      [] schema = "NonEmptyUint8Array" ->
            value.t = "Uint8Array" /\ value.b # <<>>
      [] schema \in {"TransactionData", "ContractKey"} ->
            \/ value.t = "Uint8Array" /\ value.b # <<>>
            \/ /\ value.t = "string"
               /\ value.b # <<>>
               /\ \A i \in 1..Len(value.b) : value.b[i] \in BASE58_PATTERN
      [] schema = "NonNegativeInt" ->
            value.t = "number" /\ (~value.f \/ value.b = <<>>)

\* validate(schema, value): "" when it returns, the error it throws otherwise
validate(schema, value) == IF Accepts(schema, value) THEN "" ELSE "AmadeusSDKError"

\* if (value) for the values a caller passes
Truthy(value) ==
    CASE value.t = "string" -> value.b # <<>>
      [] value.t = "number" -> value.b # <<>>
      [] value.t \in {"undefined", "null"} -> FALSE
      [] OTHER -> TRUE

\* one call of client.get / client.post
ClientCall(verb, path, arg) == [verb |-> verb, path |-> path, arg |-> arg]

\* one finished call of an API method: the error its promise rejected with
\* ("" when it resolved) and the calls it made on the client
ApiCall(method, args, rejected, invoked) ==
    [method |-> method, args |-> args, rejected |-> rejected, invoked |-> invoked]

\* TransactionAPI.submit(txPacked)
submit(txPacked) ==
    IF validate("TransactionData", txPacked) # ""
    THEN ApiCall("submit", <<txPacked>>, "AmadeusSDKError", <<>>)
    ELSE ApiCall("submit", <<txPacked>>, "",
                 <<ClientCall("post", "/api/tx/submit", txPacked)>>)

\* ChainAPI.getByHash(hash)
getByHash(hash) ==
    IF validate("Base58Hash", hash) # ""
    THEN ApiCall("getByHash", <<hash>>, "AmadeusSDKError", <<>>)
    ELSE ApiCall("getByHash", <<hash>>, "",
                 <<ClientCall("get", "/api/chain/hash/", hash)>>)

\* ChainAPI.getByHeight(height)
getByHeight(height) ==
    IF validate("NonNegativeInt", height) # ""
    THEN ApiCall("getByHeight", <<height>>, "AmadeusSDKError", <<>>)
    ELSE ApiCall("getByHeight", <<height>>, "",
                 <<ClientCall("get", "/api/chain/height/", height)>>)

\* ContractAPI.get(key)
contractGet(key) ==
    IF validate("ContractKey", key) # ""
    THEN ApiCall("contract.get", <<key>>, "AmadeusSDKError", <<>>)
    ELSE ApiCall("contract.get", <<key>>, "",
                 <<ClientCall("post", "/api/contract/get", key)>>)

\* WalletAPI.getBalance(address, symbol = 'AMA')
getBalance(address, symbol) ==
    LET sym == IF symbol.t = "undefined" THEN Str(Ascii.AMA) ELSE symbol
    IN  IF validate("Base58Address", address) # "" \/ validate("NonEmptyString", sym) # ""
        THEN ApiCall("getBalance", <<address, symbol>>, "AmadeusSDKError", <<>>)
        ELSE ApiCall("getBalance", <<address, symbol>>, "",
                     <<ClientCall("get", "/api/wallet/balance/", address)>>)

\* EpochAPI.getScore(publicKey?)
getScore(publicKey) ==
    IF Truthy(publicKey) /\ validate("Base58PublicKey", publicKey) # ""
    THEN ApiCall("getScore", <<publicKey>>, "AmadeusSDKError", <<>>)
    ELSE ApiCall("getScore", <<publicKey>>, "",
                 <<ClientCall("get",
                              IF Truthy(publicKey) THEN "/api/epoch/score/"
                                                   ELSE "/api/epoch/score",
                              publicKey)>>)

\* EpochAPI.getValidatorScore(publicKey); isArray: what client.get resolved to
getValidatorScore(publicKey, isArray) ==
    LET result == getScore(publicKey)
    IN  ApiCall("getValidatorScore", <<publicKey>>,
                IF result.rejected # "" THEN result.rejected
                ELSE IF isArray THEN "Error" ELSE "",
                result.invoked)

\* EpochAPI.getSolInEpoch(epoch, solHash)
getSolInEpoch(epoch, solHash) ==
    IF validate("NonNegativeInt", epoch) # ""
    THEN ApiCall("getSolInEpoch", <<epoch, solHash>>, "AmadeusSDKError", <<>>)
    ELSE IF ~Truthy(solHash)
    THEN ApiCall("getSolInEpoch", <<epoch, solHash>>, "Error", <<>>)
    ELSE ApiCall("getSolInEpoch", <<epoch, solHash>>, "",
                 <<ClientCall("get", "/api/epoch/sol_in_epoch/", solHash)>>)

\* the schema each method applies to each of its parameters
SchemasOf(method) ==
    CASE method = "submit" -> <<"TransactionData">>
      [] method = "getByHash" -> <<"Base58Hash">>
      [] method = "getByHeight" -> <<"NonNegativeInt">>
      [] method = "contract.get" -> <<"ContractKey">>
      [] method = "getBalance" -> <<"Base58Address", "NonEmptyString">>
      [] method = "getScore" -> <<"Base58PublicKey">>
      [] method = "getValidatorScore" -> <<"Base58PublicKey">>
      [] method = "getSolInEpoch" -> <<"NonNegativeInt", "">>

MaxCalls == 2

\* '', 'invalid!' and '5Kd3N'
StringArgs == {Str(<<>>), Str(<<105, 110, 118, 97, 108, 105, 100, 33>>),
               Str(<<53, 75, 100, 51, 78>>)}

\* new Uint8Array([]) and new Uint8Array([1, 2, 3])
BytesArgs == {U8(<<>>), U8(<<1, 2, 3>>)}

\* -1, 1.5, 0 and 100
HeightArgs == {Num(TRUE, <<1>>), Float, Num(FALSE, <<>>), Num(FALSE, <<100>>)}

InitApi ==
    /\ CodecIdle
    /\ TxIdle
    /\ ClientIdle
    /\ ApiIdle
    /\ SortIdle

\* sdk.transaction.submit(txPacked)
Submit ==
    /\ Len(apiCalls) < MaxCalls
    /\ \E txPacked \in BytesArgs \cup StringArgs :
          apiCalls' = Append(apiCalls, submit(txPacked))
    /\ UNCHANGED <<codecvars, txvars, clientvars, sortvars>>

\* sdk.chain.getByHash(hash)
GetByHash ==
    /\ Len(apiCalls) < MaxCalls
    /\ \E hash \in StringArgs :
          apiCalls' = Append(apiCalls, getByHash(hash))
    /\ UNCHANGED <<codecvars, txvars, clientvars, sortvars>>

\* sdk.chain.getByHeight(height)
GetByHeight ==
    /\ Len(apiCalls) < MaxCalls
    /\ \E height \in HeightArgs :
          apiCalls' = Append(apiCalls, getByHeight(height))
    /\ UNCHANGED <<codecvars, txvars, clientvars, sortvars>>

\* sdk.contract.get(key)
ContractGet ==
    /\ Len(apiCalls) < MaxCalls
    /\ \E key \in BytesArgs \cup StringArgs :
          apiCalls' = Append(apiCalls, contractGet(key))
    /\ UNCHANGED <<codecvars, txvars, clientvars, sortvars>>

\* sdk.wallet.getBalance(address, symbol)
GetBalance ==
    /\ Len(apiCalls) < MaxCalls
    /\ \E address \in StringArgs, symbol \in StringArgs \cup {UndefinedValue} :
          apiCalls' = Append(apiCalls, getBalance(address, symbol))
    /\ UNCHANGED <<codecvars, txvars, clientvars, sortvars>>

\* sdk.epoch.getScore(publicKey)
GetScore ==
    /\ Len(apiCalls) < MaxCalls
    /\ \E publicKey \in StringArgs \cup {UndefinedValue} :
          apiCalls' = Append(apiCalls, getScore(publicKey))
    /\ UNCHANGED <<codecvars, txvars, clientvars, sortvars>>

\* sdk.epoch.getValidatorScore(publicKey)
GetValidatorScore ==
    /\ Len(apiCalls) < MaxCalls
    /\ \E publicKey \in StringArgs, isArray \in BOOLEAN :
          apiCalls' = Append(apiCalls, getValidatorScore(publicKey, isArray))
    /\ UNCHANGED <<codecvars, txvars, clientvars, sortvars>>

\* sdk.epoch.getSolInEpoch(epoch, solHash)
GetSolInEpoch ==
    /\ Len(apiCalls) < MaxCalls
    /\ \E epoch \in HeightArgs, solHash \in StringArgs \cup BytesArgs :
          apiCalls' = Append(apiCalls, getSolInEpoch(epoch, solHash))
    /\ UNCHANGED <<codecvars, txvars, clientvars, sortvars>>

NextApi ==
    \/ Submit
    \/ GetByHash
    \/ GetByHeight
    \/ ContractGet
    \/ GetBalance
    \/ GetScore
    \/ GetValidatorScore
    \/ GetSolInEpoch

SpecApi == InitApi /\ [][NextApi]_vars

----------------------------------------------------------------------------
(* compareBytes and entries.sort on the encoded bytes of keys *)

MaxKeyLen == 2

KeyByteValues == {0, 1, 255}

\* three keys as encodeKeyBytes returns them
KeyTriples == [1..3 -> SeqsUpTo(KeyByteValues, MaxKeyLen)]

\* the entries of a keyed collection with these keys, inserted in order p
EntriesOf(ks, p) == [i \in 1..Len(ks) |-> [k |-> Null, v |-> Null, bytes |-> ks[p[i]]]]

InitSort ==
    /\ CodecIdle
    /\ TxIdle
    /\ ClientIdle
    /\ ApiIdle
    /\ keys \in KeyTriples
    /\ order = NoOrder
    /\ sorted = {}

\* compareBytes(a, b) for the pairs of the three keys
Compare ==
    /\ ~order.done
    /\ order' = [ab |-> compareBytes(keys[1], keys[2]),
                 ba |-> compareBytes(keys[2], keys[1]),
                 bc |-> compareBytes(keys[2], keys[3]),
                 ac |-> compareBytes(keys[1], keys[3]),
                 done |-> TRUE]
    /\ UNCHANGED <<keys, sorted>>
    /\ UNCHANGED <<codecvars, txvars, clientvars, apivars>>

\* entries.sort((a, b) => compareBytes(a.bytes, b.bytes)), once for every
\* order in which the three entries can have been inserted
SortKeys ==
    /\ sorted = {}
    /\ sorted' = {[i \in 1..3 |-> SortEntries(EntriesOf(keys, p))[i].bytes] : p \in Perms(3)}
    /\ UNCHANGED <<keys, order>>
    /\ UNCHANGED <<codecvars, txvars, clientvars, apivars>>

NextSort ==
    \/ Compare
    \/ SortKeys

SpecSort == InitSort /\ [][NextSort]_vars

----------------------------------------------------------------------------
(* what the claims speak of *)

\* the decoded projection of an encodable value: integers become bigints,
\* text becomes its UTF-8 bytes, objects and Maps become Maps
RECURSIVE Projection(_)
Projection(v) ==
    IF v.t \in {"number", "bigint"} THEN Big(v.f, v.b)
    ELSE IF v.t = "string" THEN U8(TextEncode(v.b))
    ELSE IF v.t = "Array"
         THEN Arr([i \in 1..Len(v.items) |-> Projection(v.items[i])])
    ELSE IF v.t \in {"Map", "object"}
         THEN MapOf([i \in 1..Len(v.items) |->
                        Entry(Projection(v.items[i].k), Projection(v.items[i].v))])
    ELSE v

\* equality of decoded values: lists element by element, mappings as sets of
\* entries whatever their order
RECURSIVE SameDecoded(_, _)
SameDecoded(x, y) ==
    /\ x.t = y.t
    /\ IF x.t = "Array"
       THEN /\ Len(x.items) = Len(y.items)
            /\ \A i \in 1..Len(x.items) : SameDecoded(x.items[i], y.items[i])
       ELSE IF x.t = "Map"
       THEN /\ Len(x.items) = Len(y.items)
            /\ \A i \in 1..Len(x.items) : \E j \in 1..Len(y.items) :
                  /\ SameDecoded(x.items[i].k, y.items[j].k)
                  /\ SameDecoded(x.items[i].v, y.items[j].v)
            /\ \A j \in 1..Len(y.items) : \E i \in 1..Len(x.items) :
                  /\ SameDecoded(x.items[i].k, y.items[j].k)
                  /\ SameDecoded(x.items[i].v, y.items[j].v)
       ELSE x = y

\* the values nested directly in v
Children(v) ==
    IF v.t = "Array" THEN {v.items[i] : i \in 1..Len(v.items)}
    ELSE IF v.t \in {"Map", "object"}
         THEN {v.items[i].k : i \in 1..Len(v.items)}
              \cup {v.items[i].v : i \in 1..Len(v.items)}
    ELSE {}

\* v is in the encodable union at every depth
RECURSIVE IsEncodable(_)
IsEncodable(v) ==
    /\ v.t \notin {"float", "undefined"}
    /\ \A c \in Children(v) : IsEncodable(c)

\* a magnitude of at most 2^53 - 1: fewer than 7 bytes, or 7 bytes the first
\* of which is below 0x20
FitsSafeInteger(mag) == Len(mag) < 7 \/ (Len(mag) = 7 /\ mag[1] < 32)

RECURSIVE AllIntegersSafe(_)
AllIntegersSafe(v) ==
    /\ v.t \in {"number", "bigint"} => FitsSafeInteger(v.b)
    /\ \A c \in Children(v) : AllIntegersSafe(c)

\* no keyed collection in v has two keys with equal encoded bytes
RECURSIVE NoEqualKeyBytes(_)
NoEqualKeyBytes(v) ==
    /\ v.t \in {"Map", "object"} =>
          \A i, j \in 1..Len(v.items) :
              i # j => encodeKeyBytes(v.items[i].k) # encodeKeyBytes(v.items[j].k)
    /\ \A c \in Children(v) : NoEqualKeyBytes(c)

RoundTrips(v) == IsEncodable(v) /\ AllIntegersSafe(v) /\ NoEqualKeyBytes(v)

\* C1: round trip.  For every encodable value whose integers are at most
\* 2^53-1 in magnitude and whose keyed collections have no two keys with
\* equal encoded bytes, encode succeeds and decode of its output returns the
\* decoded projection of the value.
C1_RoundTrip ==
    /\ pc = "encoded" /\ RoundTrips(term) => encoded.err = ""
    /\ pc = "decoded" /\ origin = "encode" /\ RoundTrips(term) =>
          /\ decoded.err = ""
          /\ SameDecoded(decoded.val, Projection(term))

\* a Map of two entries that encode had to reorder, nested in a list, went
\* through encode and decode
C1_Witness ==
    /\ pc = "decoded"
    /\ origin = "encode"
    /\ RoundTrips(term)
    /\ term.t = "Array"
    /\ Len(term.items) = 1
    /\ term.items[1].t = "Map"
    /\ Len(term.items[1].items) = 2
    /\ decoded.err = ""
    /\ decoded.val.items[1].items # Projection(term).items[1].items

\* C2: key-order independence.  Two keyed collections that hold the same
\* entries in different insertion order, at any nesting depth of the value,
\* encode to identical bytes.
C2_KeyOrderIndependent ==
    pc = "compared" /\ encoded.err = "" /\ prevEncoded.err = "" =>
        encoded.val = prevEncoded.val

\* C3: decode accepts only the canonical form.  Whenever decode returns a
\* value for a buffer, encode of that value gives the buffer back.
C3_OnlyCanonicalAccepted ==
    pc = "done" => reencoded.err = "" /\ reencoded.val = data

\* C4: every buffer that encode produces is decodable.
C4_EncodedIsDecodable ==
    pc = "decoded" /\ origin = "encode" => decoded.err = ""

\* the key bytes of every keyed collection of v, in the order encode writes
\* the entries, are strictly increasing under compareBytes
RECURSIVE KeysStrictlyIncreasing(_)
KeysStrictlyIncreasing(v) ==
    /\ v.t \in {"Map", "object"} =>
          LET written == SortEntries(collectEntries(v.items).val)
          IN \A i \in 1..(Len(written) - 1) :
                compareBytes(written[i].bytes, written[i + 1].bytes) < 0
    /\ \A c \in Children(v) : KeysStrictlyIncreasing(c)

\* C5: in every output of encode the entries of every keyed collection, at
\* any depth, are written in strictly increasing order of their key bytes.
C5_KeysWrittenStrictlyIncreasing ==
    pc = "encoded" /\ encoded.err = "" => KeysStrictlyIncreasing(term)

\* every key and every value of the hand-built map decodes on its own
PiecesDecode ==
    \A i \in 1..Len(pieces) :
        decode(pieces[i].k).err = "" /\ decode(pieces[i].v).err = ""

\* some key is not strictly greater than the key before it
SomeKeyNotGreater ==
    \E i \in 1..(Len(pieces) - 1) : compareBytes(pieces[i + 1].k, pieces[i].k) <= 0

\* C6: decode of a keyed collection in which some key's bytes are not
\* strictly greater than the bytes of the key before it fails with
\* map_not_canonical, even though every entry decodes on its own.
C6_NonCanonicalMapRejected ==
    pc = "decoded" /\ origin = "handbuilt" /\ PiecesDecode /\ SomeKeyNotGreater =>
        decoded.err = "map_not_canonical"

\* a map of three entries, the first two ascending and the third equal to
\* the second, nested in a list, was rejected
C6_Witness ==
    /\ pc = "decoded"
    /\ origin = "handbuilt"
    /\ PiecesDecode
    /\ Len(pieces) = 3
    /\ compareBytes(pieces[2].k, pieces[1].k) > 0
    /\ pieces[3].k = pieces[2].k
    /\ data[1] = TYPE_LIST
    /\ decoded.err = "map_not_canonical"

\* C7: trailing-byte rejection.  When decode accepts encode(v), decode of
\* encode(v) followed by any non-empty bytes fails with trailing_bytes.
C7_TrailingBytesRejected ==
    pc = "decoded" /\ origin = "appended" => decoded.err = "trailing_bytes"

\* a byte was appended to an encoded Map of two entries and decode failed
C7_Witness ==
    /\ pc = "decoded"
    /\ origin = "appended"
    /\ term.t = "Map"
    /\ Len(term.items) = 2
    /\ Len(data) > Len(encoded.val)
    /\ SubSeq(data, 1, Len(encoded.val)) = encoded.val
    /\ decoded.err = "trailing_bytes"

\* C8: a read at or beyond the end of the input fails with out_of_bounds.
\* decode accepted the whole buffer, so on a proper prefix of it decode
\* comes to read a tag, a varint byte or a payload beyond the end.
C8_ReadPastEndIsOutOfBounds ==
    pc = "decoded" /\ origin = "truncated" =>
        decoded.err = "decodeBytes: Out of bounds read"

\* C9: zero canonicality.  encode(0) is the INTEGER tag and the byte 0x00, a
\* varint with header 0x80 fails with noncanonical_zero, and no other buffer
\* than tag INTEGER + 0x00 decodes to the integer 0.
C9_ZeroHasOneEncoding ==
    /\ pc = "encoded" /\ term \in {Num(FALSE, <<>>), Big(FALSE, <<>>)} =>
          encoded = Ok(<<TYPE_INT, 0>>)
    /\ pc = "decoded" /\ Len(data) >= 2 /\ data[1] = TYPE_INT /\ data[2] = 128 =>
          decoded.err = "noncanonical_zero"
    /\ pc = "decoded" /\ decoded.err = "" /\ decoded.val = Big(FALSE, <<>>) =>
          data = <<TYPE_INT, 0>>

\* the buffer starts with a tag that is followed by a varint, and all the
\* magnitude bytes its header announces are there
HasCompleteVarint ==
    /\ Len(data) >= 2
    /\ data[1] \in {TYPE_INT, TYPE_BYTES, TYPE_LIST, TYPE_MAP}
    /\ data[2] \notin {0, 128}
    /\ Len(data) >= 2 + (data[2] % 128)

VarintMagnitude == StripZeros(SubSeq(data, 3, 2 + (data[2] % 128)))

SafeBoundary ==
    {Num(FALSE, MAX_SAFE_INTEGER), Num(TRUE, MAX_SAFE_INTEGER),
     Big(FALSE, MAX_SAFE_INTEGER), Big(TRUE, MAX_SAFE_INTEGER)}

\* C10: decode of an integer or length varint fails with length_overflow
\* whenever its magnitude exceeds 2^53-1; the integers 2^53-1 and -(2^53-1)
\* are accepted and round-trip through encode and decode unchanged.
C10_SafeIntegerBound ==
    /\ pc = "decoded" /\ HasCompleteVarint /\ ~FitsSafeInteger(VarintMagnitude) =>
          decoded.err = "length_overflow"
    /\ pc = "decoded" /\ HasCompleteVarint /\ data[1] = TYPE_INT
          /\ Len(data) = 2 + (data[2] % 128) /\ FitsSafeInteger(VarintMagnitude) =>
          decoded = Ok(Big(data[2] >= 128 /\ VarintMagnitude # <<>>, VarintMagnitude))
    /\ pc \in {"decoded", "done"} /\ origin = "encode" /\ term \in SafeBoundary =>
          decoded = Ok(Big(term.f, term.b))
    /\ pc = "done" /\ origin = "encode" /\ term \in SafeBoundary =>
          reencoded = encoded

\* a list whose count is 2^53 was rejected with length_overflow
C10_Witness ==
    /\ pc = "decoded"
    /\ origin = "received"
    /\ HasCompleteVarint
    /\ data[1] = TYPE_LIST
    /\ VarintMagnitude = TwoTo53
    /\ decoded.err = "length_overflow"

\* every integer of v has a magnitude of at most 16 bytes (|n| < 2^128)
RECURSIVE IntegersWithin128Bits(_)
IntegersWithin128Bits(v) ==
    /\ v.t \in {"number", "bigint"} => Len(v.b) <= 16
    /\ \A c \in Children(v) : IntegersWithin128Bits(c)

\* C11: encode of an integer fails, returning no bytes, when its magnitude
\* needs more than 16 bytes, and succeeds for every integer below 2^128, on
\* its own or inside a list or keyed collection.
C11_SixteenByteCap ==
    pc = "encoded" /\ IsEncodable(term) =>
        /\ encoded.err = "" <=> IntegersWithin128Bits(term)
        /\ encoded.err # "" => encoded.val = <<>> /\ data = <<>>

\* encode of a list holding -(2^128) threw
C11_Witness ==
    /\ pc = "encoded"
    /\ term = Arr(<<Big(TRUE, TwoTo128)>>)
    /\ encoded.err = "bad_varint_length"
    /\ data = <<>>

\* C12: encode fails with unsupported_type and returns no bytes whenever the
\* input is or contains, at any depth, a value outside the encodable union
\* (a number that is not an integer, undefined).
C12_UnsupportedType ==
    pc = "encoded" /\ ~IsEncodable(term) =>
        encoded.err = "Unsupported type" /\ encoded.val = <<>>

ValidTags == {TYPE_NULL, TYPE_TRUE, TYPE_FALSE, TYPE_INT, TYPE_BYTES, TYPE_LIST, TYPE_MAP}

\* C13: decode fails with unknown_type whenever the tag of a term, at the
\* top level, as the first element of a list, as the first key or as the
\* first value of a keyed collection, is 0x04 or above 0x07; encode writes
\* no such tag.
C13_UnknownTag ==
    /\ pc = "decoded" /\ Len(data) >= 1 /\ data[1] \notin ValidTags =>
          decoded.err = "decodeBytes: Unknown type"
    /\ pc = "decoded" /\ Len(data) >= 4 /\ data[1] \in {TYPE_LIST, TYPE_MAP}
          /\ data[2] = 1 /\ data[3] >= 1 /\ data[4] \notin ValidTags =>
          decoded.err = "decodeBytes: Unknown type"
    /\ pc = "decoded" /\ origin = "handbuilt" /\ pieces[1].k[1] \in ValidTags
          /\ pieces[1].v[1] \notin ValidTags =>
          decoded.err = "decodeBytes: Unknown type"
    /\ pc = "encoded" /\ encoded.err = "" => encoded.val[1] \in ValidTags
    /\ pc = "decoded" /\ origin = "encode" => decoded.err # "decodeBytes: Unknown type"

\* a map nested in a list, whose first value has the tag 0x08, was rejected
C13_Witness ==
    /\ pc = "decoded"
    /\ origin = "handbuilt"
    /\ data[1] = TYPE_LIST
    /\ pieces[1].k = <<TYPE_NULL>>
    /\ pieces[1].v = <<8>>
    /\ decoded.err = "decodeBytes: Unknown type"

\* the length of a byte string or the count of a list or keyed collection
\* has the sign bit set and a non-zero magnitude
HasNegativeLength ==
    /\ HasCompleteVarint
    /\ data[1] \in {TYPE_BYTES, TYPE_LIST, TYPE_MAP}
    /\ data[2] > 128
    /\ VarintMagnitude # <<>>

\* C14 as stated: a length or count with the sign bit set and a non-zero
\* magnitude always fails with length_is_negative.
C14_NegativeLength_AsStated ==
    pc = "decoded" /\ HasNegativeLength => decoded.err = "length_is_negative"

\* C14: a length or count with the sign bit set and a non-zero magnitude of
\* at most 2^53-1 fails with length_is_negative; a larger magnitude fails
\* with length_overflow.
C14_NegativeLength ==
    pc = "decoded" /\ HasNegativeLength =>
        decoded.err = IF FitsSafeInteger(VarintMagnitude)
                      THEN "length_is_negative" ELSE "length_overflow"

\* a keyed collection whose count is -(2^53-1) was rejected
C14_Witness ==
    /\ pc = "decoded"
    /\ HasNegativeLength
    /\ data[1] = TYPE_MAP
    /\ VarintMagnitude = MAX_SAFE_INTEGER
    /\ decoded.err = "length_is_negative"

\* C15: a string-keyed object, a Map with the same keys as text and a Map
\* with the same keys as the UTF-8 bytes of the text, holding the same
\* values, encode to identical bytes.
C15_ObjectAndMapsEncodeAlike ==
    pc = "converted" => encoded = prevEncoded

\* a collection of two entries was encoded again as a Map whose keys are
\* bytes, one of them the three UTF-8 bytes of U+FFFD
C15_Witness ==
    /\ pc = "converted"
    /\ term.t = "Map"
    /\ Len(term.items) = 2
    /\ term.items[1].k = U8(<<239, 191, 189>>)
    /\ term.items[2].k.t = "Uint8Array"
    /\ prevEncoded.err = ""
    /\ encoded.err = ""

NamedDecodeErrors ==
    {"decodeBytes: Out of bounds read", "decodeBytes: Unknown type",
     "noncanonical_zero", "length_overflow", "length_is_negative",
     "varint too long", "map_not_canonical", "trailing_bytes"}

\* C16: every failure of decode is one of the named conditions.
C16_OnlyNamedErrors ==
    pc = "decoded" /\ decoded.err # "" => decoded.err \in NamedDecodeErrors

----------------------------------------------------------------------------
(* TransactionBuilder claims *)

\* C17: two transactions that one TransactionBuilder builds one after the
\* other from identical inputs have different nonces and different txHash
\* values, however little time passes between the two builds.
C17_DistinctNonces ==
    \A i, j \in 1..Len(results) :
        (i < j /\ results[i].input = results[j].input)
            => /\ Field(results[i].tx, Ascii.nonce) # Field(results[j].tx, Ascii.nonce)
               /\ results[i].txHash # results[j].txHash

----------------------------------------------------------------------------
(* AmadeusClient claims *)

TimedOut(i) ==
    /\ requests[i].timer = "fired"
    /\ requests[i].phase = "done"

FetchSettled(i) == requests[i].response # NoResponse

\* C18: a request whose fetch has not settled when its timeout timer runs is
\* aborted by that timer and get / post throws AmadeusSDKError with status
\* 408; a request whose fetch settled before has its timer cleared and is
\* never aborted by it.
C18_Timeout ==
    \A i \in 1..Len(requests) :
        /\ requests[i].timer = "fired"
              => /\ requests[i].aborted
                 /\ requests[i].abortedBy = "timer"
                 /\ requests[i].timerOf = i
                 /\ requests[i].phase \in {"fetching", "done"}
                 /\ ~FetchSettled(i)
        /\ TimedOut(i) => requests[i].outcome = SDKError(408, NoData)
        /\ FetchSettled(i)
              => /\ requests[i].timer = "cleared"
                 /\ ~(requests[i].abortedBy = "timer" /\ requests[i].timerOf = i)

C18_Witness ==
    /\ \E i \in 1..Len(requests) :
          TimedOut(i) /\ requests[i].outcome.status = 408
    /\ \E i \in 1..Len(requests) :
          FetchSettled(i) /\ requests[i].phase = "done" /\ ~requests[i].aborted

\* the body of a response as handleResponse parses it
BodyDelivered(i) ==
    /\ requests[i].phase = "done"
    /\ FetchSettled(i)
    /\ ~requests[i].aborted
    /\ requests[i].response.body.parses

ErrorField(i) == ValueOf(requests[i].response.body.data, "error")

\* C19: for an HTTP-ok response whose body is an object with an error field
\* the client returns the body without that field when error is 'ok', throws
\* AmadeusSDKError 404 when it is 'not_found' and AmadeusSDKError 400 for any
\* other value; a response that is not ok always throws AmadeusSDKError with
\* the HTTP status.
C19_ErrorMapping ==
    \A i \in 1..Len(requests) :
        /\ (requests[i].phase = "done" /\ FetchSettled(i) /\ ~requests[i].response.ok)
              => /\ requests[i].outcome.threw
                 /\ requests[i].outcome.status = requests[i].response.status
        /\ (BodyDelivered(i) /\ requests[i].response.ok
                /\ HasKey(requests[i].response.body.data, "error"))
              => IF ErrorField(i) = "ok"
                 THEN /\ ~requests[i].outcome.threw
                      /\ requests[i].outcome.value.type = "object"
                      /\ requests[i].outcome.value.members
                            = requests[i].response.body.data.members \ {<<"error", "ok">>}
                      /\ ~HasKey(requests[i].outcome.value, "error")
                 ELSE /\ requests[i].outcome.threw
                      /\ requests[i].outcome.status
                            = (IF ErrorField(i) = "not_found" THEN 404 ELSE 400)

C19_Witness ==
    /\ \E i \in 1..Len(requests) :
          /\ BodyDelivered(i)
          /\ requests[i].response.ok
          /\ HasKey(requests[i].response.body.data, "error")
          /\ ErrorField(i) = "ok"
          /\ ~requests[i].outcome.threw
    /\ \E i \in 1..Len(requests) :
          /\ requests[i].phase = "done"
          /\ FetchSettled(i)
          /\ ~requests[i].response.ok
          /\ requests[i].outcome.threw

----------------------------------------------------------------------------
(* API claims *)

\* an argument that was given and that the schema of its parameter rejects
FailsItsSchema(call) ==
    \E k \in 1..Len(call.args) :
        /\ SchemasOf(call.method)[k] # ""
        /\ call.args[k].t # "undefined"
        /\ ~Accepts(SchemasOf(call.method)[k], call.args[k])

\* C20: when an argument of an API method fails its schema (empty or
\* non-Base58 string, empty byte array, negative or non-integer height) the
\* promise rejects with AmadeusSDKError and neither client.get nor
\* client.post is called.
C20_ValidatedBeforeHttp ==
    \A n \in 1..Len(apiCalls) :
        FailsItsSchema(apiCalls[n])
            => /\ apiCalls[n].rejected = "AmadeusSDKError"
               /\ apiCalls[n].invoked = <<>>

----------------------------------------------------------------------------
(* AmadeusClient configuration claims *)

\* a valid http / https URL that does not end in a slash
HttpUrlNoTrailingSlash(url) ==
    /\ ProtocolOf(url) \in {"http:", "https:"}
    /\ url[Len(url)] # "/"

ConfigIsSound(c) ==
    c # NoConfig => HttpUrlNoTrailingSlash(c.baseUrl) /\ c.timeout > 0

\* this step is a call of the constructor or of setBaseUrl with that URL
CalledWithUrl(ops) ==
    /\ lastCall' # lastCall
    /\ lastCall'.op \in ops
    /\ lastCall'.url # NoUrl

----------------------------------------------------------------------------
(* the varint format *)

\* C22: for every non-zero integer n with |n| < 2^128 the varint written by
\* encode is one header byte (bit 7 set exactly when n < 0, bits 0-6 the
\* number of magnitude bytes) followed by the big-endian magnitude of |n| in
\* the minimal number of bytes, so that the first magnitude byte is not zero;
\* for n = 0 it is the single byte 0x00.
C22_VarintFormat ==
    pc = "encoded" /\ term.t \in {"number", "bigint"} /\ Len(term.b) <= 16 =>
        /\ encoded.err = ""
        /\ Len(encoded.val) >= 2
        /\ encoded.val[1] = TYPE_INT
        /\ LET varint == Tail(encoded.val)
               header == varint[1]
               magnitude == Tail(varint)
           IN IF term.b = <<>> THEN varint = <<0>>
              ELSE /\ header \div 128 = (IF term.f THEN 1 ELSE 0)
                   /\ header % 128 = Len(magnitude)
                   /\ magnitude = term.b
                   /\ magnitude[1] # 0

\* -(2^53 - 1) was encoded with header 0x87 and its seven magnitude bytes
C22_Witness ==
    /\ pc = "encoded"
    /\ term = Num(TRUE, MAX_SAFE_INTEGER)
    /\ encoded.val = <<TYPE_INT, 135>> \o MAX_SAFE_INTEGER


----------------------------------------------------------------------------
(* the key comparator *)

SignOf(n) == IF n < 0 THEN 0 - 1 ELSE IF n > 0 THEN 1 ELSE 0

\* the positions at which both sequences have a byte and the bytes differ
Differing(a, b) == {i \in 1..Len(a) : i <= Len(b) /\ a[i] # b[i]}

\* -1, 0 or 1: the first differing byte decides by its unsigned value, and
\* without one the shorter sequence comes first
Lexicographic(a, b) ==
    IF Differing(a, b) # {}
    THEN LET i == CHOOSE j \in Differing(a, b) : \A m \in Differing(a, b) : j <= m
         IN IF a[i] < b[i] THEN 0 - 1 ELSE 1
    ELSE SignOf(Len(a) - Len(b))

\* C23: the key comparator compares two byte sequences left to right by
\* unsigned byte value, the first differing byte deciding, and a strict
\* prefix sorts before the longer sequence; it returns zero only for equal
\* sequences and is a total order (antisymmetric and transitive), so that
\* the sorted order of a set of distinct keys is unique.
C23_ComparatorIsTotalOrder ==
    /\ order.done =>
        /\ SignOf(order.ab) = Lexicographic(keys[1], keys[2])
        /\ SignOf(order.bc) = Lexicographic(keys[2], keys[3])
        /\ SignOf(order.ac) = Lexicographic(keys[1], keys[3])
        /\ order.ab = 0 <=> keys[1] = keys[2]
        /\ SignOf(order.ba) = 0 - SignOf(order.ab)
        /\ order.ab < 0 /\ order.bc < 0 => order.ac < 0
    /\ sorted # {} /\ Cardinality({keys[i] : i \in 1..3}) = 3 =>
        /\ Cardinality(sorted) = 1
        /\ \A s \in sorted : \A i \in 1..2 : Lexicographic(s[i], s[i + 1]) < 0

\* <<1>>, <<1, 0>> and <<255>> were compared and sorted: the prefix came
\* first and 255 came last from every order of insertion
C23_Witness ==
    /\ keys = <<<<1, 0>>, <<255>>, <<1>>>>
    /\ order.done
    /\ order.ab < 0
    /\ order.ac > 0
    /\ sorted = {<<<<1>>, <<1, 0>>, <<255>>>>}


----------------------------------------------------------------------------
(* requests of one client *)

Pending(r) == r.phase \in {"fetching", "reading"}

\* C24: starting a request aborts the request the client started before it
\* if that is still pending, so at most one request that is not aborted is
\* in flight at any moment, the one whose controller the client holds;
\* cancel() aborts it, so once cancel() has returned (the client holds no
\* controller) no pending request is left that is not aborted.
C24_OneLiveRequest ==
    \A i \in 1..Len(requests) :
        Pending(requests[i]) /\ ~requests[i].aborted => abortController = i

\* a second request aborted the first and cancel() aborted the second, both
\* still waiting for fetch to reject
C24_Witness ==
    /\ Len(requests) = 2
    /\ abortController = 0
    /\ Pending(requests[1]) /\ requests[1].abortedBy = "request"
    /\ Pending(requests[2]) /\ requests[2].abortedBy = "cancel"

\* C25: a request is aborted only by its own timeout timer, by cancel() or
\* by a later request of the client: the timer armed for an earlier request
\* never aborts a request started after it.
C25_OwnTimerOnly ==
    \A i \in 1..Len(requests) :
        requests[i].aborted =>
            \/ requests[i].abortedBy = "timer" /\ requests[i].timerOf = i
            \/ requests[i].abortedBy = "cancel"
            \/ requests[i].abortedBy = "request" /\ Len(requests) > i

\* the first request was aborted by the second and the timer of the second
\* fired while the second was waiting for fetch
C25_Witness ==
    /\ Len(requests) = 2
    /\ requests[1].abortedBy = "request"
    /\ requests[1].timer = "cleared"
    /\ requests[2].abortedBy = "timer"
    /\ requests[2].timerOf = 2


----------------------------------------------------------------------------
(* the cursor of decode *)

\* the length a buffer starting with TYPE_BYTES declares, and where its
\* payload starts
DeclaredLength == decodeVarintGteZero(data, 1)

\* C26: whenever decode returns a value the cursor ended exactly at the
\* length of the input (every read is made below the cursor, so every byte
\* read lay inside the input); hence no proper prefix of an accepted input
\* is accepted, and a byte string whose declared length exceeds the
\* remaining input is never returned.
C26_CursorAtEnd ==
    pc = "decoded" =>
        /\ decoded.err = "" => ref.offset = Len(data)
        /\ origin \in {"truncated", "prefix"} => decoded.err # ""
        /\ decoded.err = "" /\ data[1] = TYPE_BYTES =>
              /\ DeclaredLength.off + DeclaredLength.val = Len(data)
              /\ Len(decoded.val.b) = DeclaredLength.val

\* <<5, 1, 1, 7>>, a byte string of one byte, was accepted; cut to
\* <<5, 1, 1>> it declares one byte more than is left, the cursor ends past
\* the input and decode fails
C26_Witness ==
    /\ pc = "decoded"
    /\ origin = "prefix"
    /\ data = <<TYPE_BYTES, 1, 1>>
    /\ ref.offset = 4
    /\ decoded.err = "trailing_bytes"


----------------------------------------------------------------------------
(* the entries of a decoded keyed collection *)

\* C27: whenever decode returns a mapping for a keyed collection whose count
\* field is n, the mapping has n entries: no two entries of an accepted
\* keyed collection decode to the same key, so that none is overwritten.
C27_CountEntries ==
    pc = "decoded" /\ origin = "handbuilt" /\ data = BuildMap(<<>>, pieces)
            /\ decoded.err = "" =>
        /\ decoded.val.t = "Map"
        /\ Len(decoded.val.items) = Len(pieces)
        /\ \A i, j \in 1..Len(decoded.val.items) :
              i # j => decoded.val.items[i].k # decoded.val.items[j].k


----------------------------------------------------------------------------
(* the hash and the signature of a signed transaction *)

\* what sign has to return for tx: the hash of its encoding, and the packed
\* object holding tx, that hash and the signature over that hash
SignedFor(tx) ==
    LET hash == sha256(encode(tx).val)
    IN  [txHash |-> toBase58(hash),
         txPacked |-> encode(Obj(<<Entry(Str(Ascii.tx), tx),
                                   Entry(Str(Ascii.hash), U8(hash)),
                                   Entry(Str(Ascii.signature), U8(signHash(hash, SignerSk)))>>))]

\* C28: for every result of sign or buildAndSign, txHash and the hash inside
\* txPacked are the SHA-256 of the encoding of the tx inside that txPacked,
\* and the signature is over that hash, for every sequence of build, change
\* of the unsigned transaction by the caller, and sign.
C28_HashOfEmbeddedTx ==
    \A i \in 1..Len(results) :
        /\ results[i].txHash = SignedFor(results[i].tx).txHash
        /\ results[i].txPacked = SignedFor(results[i].tx).txPacked


----------------------------------------------------------------------------
(* the nonce and the decoder *)

\* C29: the nonce of a transaction (the time in milliseconds times
\* 1,000,000) does not exceed the integer bound 2^53 - 1 of the decoder, so
\* that decode accepts every txPacked and every encoded tx of the builder.
C29_NonceWithinDecoderBound ==
    \A i \in 1..Len(results) :
        /\ ~MagGreater(Field(results[i].tx, Ascii.nonce).b, MAX_SAFE_INTEGER)
        /\ decode(encode(results[i].tx).val).err = ""
        /\ decode(results[i].txPacked.val).err = ""


----------------------------------------------------------------------------
(* termination of decode *)

\* C30: decode terminates on every finite input, returning a value or
\* failing: each decoded term consumes at least one byte of the input, so
\* the number of terms decoded never exceeds the length of the input,
\* whatever element or entry counts the input declares.
C30_TermsWithinInput ==
    pc = "decoded" =>
        /\ decoded # NoResult
        /\ ref.terms <= Len(data)
        /\ decoded.err = "" => ref.terms >= 1 /\ ref.terms <= ref.offset

\* a list declaring 2^24 elements and holding one: decode failed after two
\* terms
C30_Witness ==
    /\ pc = "decoded"
    /\ data = <<TYPE_LIST, 4, 1, 0, 0, 0, TYPE_NULL>>
    /\ ref.terms = 2
    /\ decoded.err = "decodeBytes: Out of bounds read"

====
